---- MODULE Spec2Model ----
(***************************************************************************)
(* Model of the frame loop of src/src/main.cpp (vibe-3d).                  *)
(*                                                                         *)
(* Fixed-point units (the code uses 32-bit floats):                        *)
(*   length    1 unit = 1 mm          (2.2 m      -> 2200)                 *)
(*   time      1 unit = 1/600 s       (1/60 s -> 10, 0.1 s -> 60)          *)
(*   velocity  1 unit = 1 mm/s        (7 m/s      -> 7000)                 *)
(*   direction 1 unit = 1/1000        (unit vector -> length 1000)         *)
(*   stamina   1 unit = 1/12000       (1.0 -> 12000, 0.05 -> 600)          *)
(* Products are divided with floor (\div).  Facing angles, walk cycles,    *)
(* animation phases, the camera, audio and rendering are not modelled:     *)
(* the simulation never reads them.                                        *)
(***************************************************************************)
EXTENDS Integers, Sequences, FiniteSets, TLC

VARIABLES
  player,              \* Player: position, velocity, onGround
  coyoteTimer,
  jumpBufferTimer,
  stamina,
  clown,               \* Enemy: position, velocity, onGround, jumpCooldown
  mummy,               \* Enemy: position, velocity, onGround
  mummyThrowCooldown,
  cats,                \* 0..9  -> Cat
  dogs,                \* 0..19 -> Dog
  bombs,               \* 0..11 -> Bomb
  currentLevel,        \* "Level1Cats" | "Level2Dogs"
  levelOneAnnounced,
  hasWon,
  collectedCount,
  isPaused,
  wasEscapeDown,
  wasPDown,
  running,             \* FALSE once glfwWindowShouldClose(window) ended the loop
  process,             \* main(): the step it is at, lines written to std::cerr, return value
  rng,                 \* a caller of RandomFloat: its seed before and after, the value
  streams,             \* the values each cat and dog has drawn from its own seed, in order
  frameNo,             \* frames executed since the initial state (bounded)
  obs                  \* what the last frame did (observation only, never read by the frame)

vars == <<player, coyoteTimer, jumpBufferTimer, stamina, clown, mummy,
          mummyThrowCooldown, cats, dogs, bombs, currentLevel,
          levelOneAnnounced, hasWon, collectedCount, isPaused,
          wasEscapeDown, wasPDown, running, process, rng, streams, frameNo, obs>>

----------------------------------------------------------------------------
(* Arithmetic helpers *)

Abs(a) == IF a < 0 THEN -a ELSE a
Min(a, b) == IF a < b THEN a ELSE b
Max(a, b) == IF a > b THEN a ELSE b
Clamp(a, lo, hi) == Min(Max(a, lo), hi)

V(a, b, c) == [x |-> a, y |-> b, z |-> c]
Zero3 == V(0, 0, 0)

RECURSIVE SqrtIter(_, _)
\* Newton's iteration for floor(sqrt(n)), started at some x >= sqrt(n), x > 0
SqrtIter(n, x) ==
  LET y == (x + n \div x) \div 2
  IN IF y >= x THEN x ELSE SqrtIter(n, y)

\* std::sqrt: floor(sqrt(n)) for 0 <= n < 2^31
ISqrt(n) ==
  IF n = 0 THEN 0
  ELSE IF n < 65536 THEN SqrtIter(n, 256)
  ELSE IF n < 16777216 THEN SqrtIter(n, 4096)
  ELSE SqrtIter(n, 46341)

\* floor(sqrt(a^2 + b^2 + c^2)), started at |a| + |b| + |c|
Norm(a, b, c) ==
  IF a = 0 /\ b = 0 /\ c = 0 THEN 0
  ELSE SqrtIter(a * a + b * b + c * c, Abs(a) + Abs(b) + Abs(c))

\* glm::length(glm::vec2(a, b)); coarser above 30 m so that squares fit 32 bits
Length2(a, b) ==
  IF Abs(a) > 30000 \/ Abs(b) > 30000
  THEN 16 * Norm(a \div 16, b \div 16, 0)
  ELSE Norm(a, b, 0)

\* glm::length of a 3-vector
Length3(a, b, c) ==
  IF Abs(a) > 20000 \/ Abs(b) > 20000 \/ Abs(c) > 20000
  THEN 16 * Norm(a \div 16, b \div 16, c \div 16)
  ELSE Norm(a, b, c)

\* glm::distance(p, q) < r, decided on the squares (r <= 26000)
DistanceLess(p, q, r) ==
  LET dx == p.x - q.x
      dy == p.y - q.y
      dz == p.z - q.z
  IN /\ Abs(dx) < r
     /\ Abs(dy) < r
     /\ Abs(dz) < r
     /\ dx * dx + dy * dy + dz * dz < r * r

\* glm::mix(a, b, t) with t = num / den
Mix(a, b, num, den) == a + ((b - a) * num) \div den

\* v * dt for a velocity in mm/s and dt in 1/600 s
Advance(v, dt) == (v * dt) \div 600

----------------------------------------------------------------------------
(* Program constants *)

gravity == -18000
moveSpeed == 5000
sprintSpeed == 8000            \* moveSpeed * sprintMultiplier (1.6)
accelGround == 24
accelAir == 10
jumpSpeed == 7000
coyoteTimeMax == 72
jumpBufferMax == 72
playerHalfSize == 500
enemyHalfSize == 450
staminaFull == 12000
staminaSprintMin == 600
staminaDrain == 9              \* 0.45 / s
staminaRegen == 7              \* 0.35 / s

NumCats == 10
NumDogs == 20
NumBombs == 12
CatIds == 0 .. (NumCats - 1)
DogIds == 0 .. (NumDogs - 1)
BombIds == 0 .. (NumBombs - 1)

P(cx, cy, cz, hx, hy, hz) == [position |-> V(cx, cy, cz), halfExtents |-> V(hx, hy, hz)]

platforms == <<
  P(0, -1000, 0, 22000, 500, 22000),
  P(4000, 1000, 0, 1800, 300, 1800),
  P(-3000, 2200, -2500, 1200, 300, 1200),
  P(7000, 3200, 2500, 1200, 300, 1200),
  P(-8000, 1400, 4000, 2000, 300, 1000),
  P(-11000, 3000, 6000, 1400, 300, 1400),
  P(10000, 1800, -6000, 1600, 300, 1200),
  P(14000, 3000, -8000, 1200, 300, 1200),
  P(-12000, 1000, -4000, 1200, 300, 1200),
  P(-14000, 1600, -6000, 1200, 300, 1200),
  P(-18000, 2400, -9000, 1100, 300, 1100),
  P(5000, 3600, 8000, 1200, 300, 1200),
  P(-2000, 4200, 8500, 1000, 300, 1000),
  P(-6000, 4600, 9000, 1000, 300, 1000) >>

\* platforms[i] of the code is platforms[i + 1] here (sequences start at 1)
Platform(i) == platforms[i + 1]
NumPlatforms == Len(platforms)
PlatformTop(i) == Platform(i).position.y + Platform(i).halfExtents.y
groundTop == PlatformTop(0)

playerSpawn == V(0, 2000, 0)
levelOneSpawn == playerSpawn
levelTwoSpawn == V(-16000, 2000, -16000)
carPositionLevel1 == V(18000, 0, 16000)
carPositionLevel2 == V(-18000, 0, 18000)
mummySpawn == V(-2000, 450, -10000)

----------------------------------------------------------------------------
(* Kinematic solver pieces shared by player, clown, mummy and dogs *)

\* if (p.y - h < groundTop) { p.y = groundTop + h; v.y = 0; onGround = true; }
\* preceded by onGround = false
GroundSnap(e, h) ==
  IF e.position.y - h < groundTop
  THEN [e EXCEPT !.position.y = groundTop + h, !.velocity.y = 0, !.onGround = TRUE]
  ELSE [e EXCEPT !.onGround = FALSE]

\* the landing condition of platform i for a cube of half-size h
PlatformHit(pos, vy, h, i) ==
  LET platform == Platform(i)
      platformTop == PlatformTop(i)
      withinX == Abs(pos.x - platform.position.x) <= platform.halfExtents.x + h
      withinZ == Abs(pos.z - platform.position.z) <= platform.halfExtents.z + h
      falling == vy <= 0
  IN withinX /\ withinZ /\ falling
     /\ pos.y - h < platformTop /\ pos.y > platformTop - 600

\* for (size_t i = 1; i < platforms.size(); ++i) { ... snap onto platform i ... }
\* result: the entity and the platforms it was snapped onto, in list order
RECURSIVE LandLoop(_, _, _, _)
LandLoop(e, h, i, snapped) ==
  IF i >= NumPlatforms THEN [e |-> e, snapped |-> snapped]
  ELSE IF PlatformHit(e.position, e.velocity.y, h, i)
       THEN LandLoop([e EXCEPT !.position.y = PlatformTop(i) + h,
                               !.velocity.y = 0,
                               !.onGround = TRUE], h, i + 1, snapped \cup {i})
       ELSE LandLoop(e, h, i + 1, snapped)

\* position += velocity * deltaTime
Integrate(e, dt) ==
  [e EXCEPT !.position = V(e.position.x + Advance(e.velocity.x, dt),
                           e.position.y + Advance(e.velocity.y, dt),
                           e.position.z + Advance(e.velocity.z, dt))]

----------------------------------------------------------------------------
(* Player controller, main.cpp 948-1030 *)

\* glm::clamp(accel * deltaTime, 0, 1) as a numerator over 600
AccelAlpha(accel, dt) == Clamp(accel * dt, 0, 600)

\* lines 1015-1019: the coyote timer after the solver
CoyoteNoGrace(onGround, coyote, dt) == IF onGround THEN coyoteTimeMax ELSE 0

CoyoteAfter(onGround, coyote, dt) ==
  IF onGround THEN coyoteTimeMax ELSE Max(0, coyote - dt)

\* a jump that would fire on the buffer alone
JumpOnBuffer(buffer, coyote) == buffer > 0

\* the jump condition of line 1022
JumpConditionLoose(buffer, coyote) == buffer >= 0 /\ coyote >= 0

JumpCondition(buffer, coyote) == buffer > 0 /\ coyote > 0

\* line 971: sprint is wanted while Shift is down and stamina > 0.05
WantsSprint(shift, stam) == shift /\ stam > staminaSprintMin

\* lines 979-983 without the clamps of glm::max and glm::min
StaminaUnclamped(stam, wantsSprint, moving, dt) ==
  IF wantsSprint /\ moving THEN stam - staminaDrain * dt ELSE stam + staminaRegen * dt

\* lines 979-983: stamina drains while sprinting with motion and regenerates otherwise
StaminaAfter(stam, wantsSprint, moving, dt) ==
  IF wantsSprint /\ moving
  THEN Max(0, stam - staminaDrain * dt)
  ELSE Min(staminaFull, stam + staminaRegen * dt)

\* in: [dt, dir, shift, space]; dir is the normalised key direction in 1/1000
PlayerStep(pl, coyote, buffer, stam, won, in) ==
  LET dt == in.dt
      inputDir == IF won THEN [x |-> 0, z |-> 0] ELSE in.dir
      moving == Length2(inputDir.x, inputDir.z) > 100
      wantsSprint == WantsSprint(in.shift, stam)
      targetSpeed == IF wantsSprint THEN sprintSpeed ELSE moveSpeed
      accel == IF pl.onGround THEN accelGround ELSE accelAir
      alpha == AccelAlpha(accel, dt)
      targetX == (inputDir.x * targetSpeed) \div 1000
      targetZ == (inputDir.z * targetSpeed) \div 1000
      vel1 == V(Mix(pl.velocity.x, targetX, alpha, 600),
                pl.velocity.y + (gravity * dt) \div 600,
                Mix(pl.velocity.z, targetZ, alpha, 600))
      stam1 == StaminaAfter(stam, wantsSprint, moving, dt)
      buffer1 == IF in.space THEN jumpBufferMax ELSE buffer
      moved == Integrate([pl EXCEPT !.velocity = vel1], dt)
      grounded == GroundSnap(moved, playerHalfSize)
      landed == LandLoop(grounded, playerHalfSize, 1, {})
      pl2 == landed.e
      coyote2 == CoyoteAfter(pl2.onGround, coyote, dt)
      buffer2 == Max(0, buffer1 - dt)
      jump == JumpCondition(buffer2, coyote2)
  IN [player |-> IF jump THEN [pl2 EXCEPT !.velocity.y = jumpSpeed, !.onGround = FALSE]
                 ELSE pl2,
      coyoteTimer |-> IF jump THEN 0 ELSE coyote2,
      jumpBufferTimer |-> IF jump THEN 0 ELSE buffer2,
      stamina |-> stam1,
      \* observations
      wantsSprint |-> wantsSprint,
      moving |-> moving,
      preY |-> pl.position.y,
      solved |-> pl2,
      snapped |-> landed.snapped,
      coyoteAtCheck |-> coyote2,
      bufferAtCheck |-> buffer2,
      jumped |-> jump]


----------------------------------------------------------------------------
(* Clown AI (level 1), main.cpp 1033-1146 *)

clownSpeed == 3200
aggroRange == 18000
closeRange == 4500
clownJumpCooldown == 270       \* 0.45 s
clownSpawn == V(4000, groundTop + enemyHalfSize, -4000)

\* normalise a horizontal vector to length 1000 when it is longer than 0.001 m
NormalizeXZ(dx, dz) ==
  LET len == Length2(dx, dz)
  IN IF len > 1 THEN [x |-> (dx * 1000) \div len, z |-> (dz * 1000) \div len]
     ELSE [x |-> dx, z |-> dz]

\* the platform scan of lines 1039-1055: best is [score, target]
RECURSIVE ClownScan(_, _, _, _)
ClownScan(cl, pl, i, best) ==
  IF i >= NumPlatforms THEN best
  ELSE LET platform == Platform(i)
           platformTop == PlatformTop(i) + enemyHalfSize
           distToPlayer == Length2(platform.position.x - pl.position.x,
                                   platform.position.z - pl.position.z)
           distToClown == Length2(platform.position.x - cl.position.x,
                                  platform.position.z - cl.position.z)
           score == distToPlayer + (distToClown * 4) \div 10
                    + Abs(platformTop - pl.position.y)
       IN IF /\ platformTop > cl.position.y + 400
             /\ platformTop <= pl.position.y + 300
             /\ score < best.score
          THEN ClownScan(cl, pl, i + 1,
                         [score |-> score,
                          target |-> V(platform.position.x, platformTop, platform.position.z)])
          ELSE ClownScan(cl, pl, i + 1, best)

\* the player-clown contact test of line 1140
ClownContact(pl, cl) ==
  DistanceLess(pl.position, cl.position, playerHalfSize + enemyHalfSize + 100)

\* lines 1036-1056: the point the clown runs to
ClownTarget(cl, pl, playerDistance) ==
  IF playerDistance < aggroRange /\ pl.position.y > cl.position.y + 600
  THEN ClownScan(cl, pl, 0, [score |-> 1000000000, target |-> pl.position]).target
  ELSE pl.position

\* a jump height that would follow the player's height without limit
ClownJumpHeightUnclamped(playerHeightGap) == playerHeightGap + 400

\* line 1078: the height the clown jumps for
ClownJumpHeight(playerHeightGap) == Clamp(playerHeightGap + 400, 800, 2400)

\* lines 1058-1112: chase velocity, predictive jump and gravity
ClownVelocity(cl, pl, won, dt, playerDistance, chaseDir) ==
  LET speedRamp == 1000 + (Clamp(((closeRange - playerDistance) * 1000) \div closeRange,
                                 0, 1000) * 6) \div 10
      clownChaseSpeed == (((clownSpeed * speedRamp) \div 1000) * 115) \div 100
      cooldown1 == IF cl.jumpCooldown > 0 THEN cl.jumpCooldown - dt ELSE cl.jumpCooldown
      playerHeightGap == pl.position.y - cl.position.y
      jumps == /\ ~won
               /\ cl.onGround
               /\ cooldown1 <= 0
               /\ playerHeightGap > 200
               /\ Length2(pl.position.x - cl.position.x, pl.position.z - cl.position.z) < 6500
      jumpHeight == ClownJumpHeight(playerHeightGap)
  IN [clown |-> [cl EXCEPT
                   !.velocity = V(IF won THEN 0 ELSE (chaseDir.x * clownChaseSpeed) \div 1000,
                                  IF jumps THEN ISqrt(2 * (-gravity) * jumpHeight)
                                  ELSE cl.velocity.y + (gravity * dt) \div 600,
                                  IF won THEN 0 ELSE (chaseDir.z * clownChaseSpeed) \div 1000),
                   !.jumpCooldown = IF jumps THEN clownJumpCooldown ELSE cooldown1],
      jumped |-> jumps]

ClownChase(cl, pl, won, dt, playerDistance, aiTarget) ==
  ClownVelocity(cl, pl, won, dt, playerDistance,
                NormalizeXZ(aiTarget.x - cl.position.x, aiTarget.z - cl.position.z))

ClownAim(cl, pl, won, dt, playerDistance) ==
  ClownChase(cl, pl, won, dt, playerDistance, ClownTarget(cl, pl, playerDistance))

\* lines 1033-1112: the clown before its solver step
ClownAI(cl, pl, won, dt) ==
  ClownAim(cl, pl, won, dt, Length3(pl.position.x - cl.position.x,
                                    pl.position.y - cl.position.y,
                                    pl.position.z - cl.position.z))

\* a contact that would send only the player back
ClownHitPlayerOnly(pl, landed, preY, ai, hit) ==
  [clown |-> landed.e,
   player |-> IF hit
              THEN [pl EXCEPT !.position = levelOneSpawn, !.velocity = Zero3]
              ELSE pl,
   solved |-> landed.e,
   preY |-> preY,
   snapped |-> landed.snapped,
   jumped |-> ai.jumped,
   aimed |-> ai.clown,
   contact |-> hit]

\* lines 1139-1146: the contact reset; landed is the clown's solver result
ClownHit(pl, landed, preY, ai, hit) ==
  [clown |-> IF hit
             THEN [landed.e EXCEPT !.position = clownSpawn, !.velocity = Zero3,
                                   !.onGround = TRUE]
             ELSE landed.e,
   player |-> IF hit
              THEN [pl EXCEPT !.position = levelOneSpawn, !.velocity = Zero3]
              ELSE pl,
   \* observations
   solved |-> landed.e,
   preY |-> preY,
   snapped |-> landed.snapped,
   jumped |-> ai.jumped,
   aimed |-> ai.clown,
   contact |-> hit]

\* lines 1114-1137: integration, ground and platform collision
ClownSolve(pl, ai, preY, dt, landed) ==
  ClownHit(pl, landed, preY, ai, ClownContact(pl, landed.e))

ClownMove(pl, ai, preY, dt) ==
  ClownSolve(pl, ai, preY, dt,
             LandLoop(GroundSnap(Integrate(ai.clown, dt), enemyHalfSize),
                      enemyHalfSize, 1, {}))

\* result: the clown after its solver step, and the player and clown after the contact test
ClownStep(cl, pl, won, dt) == ClownMove(pl, ClownAI(cl, pl, won, dt), cl.position.y, dt)


----------------------------------------------------------------------------
(* RNG, main.cpp 53-56.  A 32-bit seed is kept as two 16-bit halves. *)

\* seed * 1664525u + 1013904223u  (mod 2^32);
\* 1664525 = 25 * 2^16 + 26125, 1013904223 = 15470 * 2^16 + 62303
LCG(seed) ==
  LET t == seed.lo * 26125 + 62303
  IN [lo |-> t % 65536,
      hi |-> (seed.hi * 26125 + seed.lo * 25 + 15470 + t \div 65536) % 65536]

\* (seed >> 8) & 0xFFFFFF
Mantissa(seed) == seed.hi * 256 + seed.lo \div 256

randDenominator == 16777215    \* 0xFFFFFF

\* RandomFloat(seed): the seed is advanced, the value is num / 0xFFFFFF
RandomFloat(seed) == [seed |-> LCG(seed), num |-> Mantissa(LCG(seed))]

\* floor(value * range) for value = num / 0xFFFFFF, 0 <= range < 2^18
ScaleRand(num, range) ==
  IF num = randDenominator THEN range
  ELSE LET a == num \div 4096
           b == num % 4096
       IN (a * range + (b * range) \div 4096) \div 4096

\* value < pct / 100
RandLess(num, pct) == num * 100 < pct * randDenominator

\* cos and sin of value * 6.28318, in 1/1000, on 16 sectors of 22.5 degrees
Cos16 == <<1000, 924, 707, 383, 0, -383, -707, -924,
           -1000, -924, -707, -383, 0, 383, 707, 924>>
RandCos(num) == Cos16[(num \div 1048576) + 1]
RandSin(num) == Cos16[(((num \div 1048576) + 12) % 16) + 1]

Seed32(n) == [hi |-> n \div 65536, lo |-> n % 65536]


----------------------------------------------------------------------------
(* Cats (level 1), main.cpp 757-781 and 1148-1355 *)

catRadius == 300
catPickupRadius == 1200
catGroundY == 0                \* the literal 0.0f of line 1181

catStart == <<V(2500, 0, -2000), V(-4000, 0, 3000), V(6000, 2000, 1500),
              V(-9000, 2400, 4000), V(-12000, 3800, 6000), V(10000, 2200, -5500),
              V(14000, 3400, -8000), V(-14000, 2200, -6000), V(-18000, 2800, -9000),
              V(-6000, 5000, 9000)>>

\* a seeding that starts every cat on a stream of its own
CatSeedApart(i) == Seed32(42 + i)

\* catSeed after i steps of line 774, from 42u
RECURSIVE CatSeed(_)
CatSeed(i) == IF i = 0 THEN Seed32(42) ELSE LCG(CatSeed(i - 1))

\* the cat constructed by lines 757-781
InitCat(i) ==
  LET r1 == RandomFloat(CatSeed(i))        \* moveSpeed
      r2 == RandomFloat(r1.seed)           \* turnSpeed
      r3 == RandomFloat(r2.seed)           \* facing
      r4 == RandomFloat(r3.seed)           \* behaviorTimer
      r5 == RandomFloat(r4.seed)           \* idleAnimTimer
  IN [position |-> catStart[i + 1],
      velocity |-> Zero3,
      collected |-> FALSE,
      behavior |-> "Idle",
      behaviorTimer |-> ScaleRand(r4.num, 1800),
      wanderTarget |-> Zero3,
      idleAnim |-> "None",
      idleAnimTimer |-> 300 + ScaleRand(r5.num, 1200),
      groomTarget |-> -1,
      rollHold |-> 0,
      moveSpeed |-> 2500 + ScaleRand(r1.num, 2000),
      seed |-> r5.seed]

\* a pickup that would let go of a cat the player has left behind
CollectCatsInReach(cs, pl) ==
  [i \in CatIds |->
     IF DistanceLess(pl.position, cs[i].position, catPickupRadius)
     THEN [cs[i] EXCEPT !.collected = TRUE, !.behavior = "Following", !.behaviorTimer = 0]
     ELSE [cs[i] EXCEPT !.collected = FALSE]]

\* lines 1148-1158: pickup and count, in cat order
CollectCats(cs, pl) ==
  [i \in CatIds |->
     IF ~cs[i].collected /\ DistanceLess(pl.position, cs[i].position, catPickupRadius)
     THEN [cs[i] EXCEPT !.collected = TRUE, !.behavior = "Following", !.behaviorTimer = 0]
     ELSE cs[i]]

CountCollected(xs) == Cardinality({i \in DOMAIN xs : xs[i].collected})

\* lines 1187-1200: the cat's platform loop (no onGround flag)
RECURSIVE CatLandLoop(_, _)
CatLandLoop(cat, i) ==
  IF i >= NumPlatforms THEN cat
  ELSE IF PlatformHit(cat.position, cat.velocity.y, catRadius, i)
       THEN CatLandLoop([cat EXCEPT !.position.y = PlatformTop(i) + catRadius,
                                    !.velocity.y = 0], i + 1)
       ELSE CatLandLoop(cat, i + 1)

\* lines 1163-1200: timers, gravity, ground and platform collision
CatTimersAndCollision(cat, dt) ==
  LET idleTimer == cat.idleAnimTimer - dt
      expired == cat.idleAnim # "None" /\ idleTimer <= 0
      c1 == [cat EXCEPT !.behaviorTimer = cat.behaviorTimer - dt,
                        !.idleAnimTimer = idleTimer,
                        !.idleAnim = IF expired THEN "None" ELSE cat.idleAnim,
                        !.groomTarget = IF expired THEN -1 ELSE cat.groomTarget,
                        !.rollHold = IF expired THEN 0 ELSE cat.rollHold,
                        !.velocity.y = cat.velocity.y + (gravity * dt) \div 600]
      c2 == IF c1.position.y - catRadius < catGroundY
            THEN [c1 EXCEPT !.position.y = catRadius, !.velocity.y = 0]
            ELSE c1
  IN CatLandLoop(c2, 1)

\* dir * speed for dir = normalize(toTarget.xz)
Steer(dx, dz, speed) ==
  LET len == Length2(dx, dz)
  IN IF len = 0 THEN [x |-> 0, z |-> 0]
     ELSE [x |-> (((dx * 1000) \div len) * speed) \div 1000,
           z |-> (((dz * 1000) \div len) * speed) \div 1000]

noTarget == 999000             \* distToTarget = 999.0f

\* lines 1207-1232: a collected cat follows the player
CatFollow(cat, pl, playerDist2D) ==
  LET far == playerDist2D > 5500
      repick == cat.behaviorTimer <= 0 \/ far
      r1 == RandomFloat(cat.seed)                        \* angle
      r2 == IF far THEN r1 ELSE RandomFloat(r1.seed)     \* radius
      r3 == IF far THEN r1 ELSE RandomFloat(r2.seed)     \* behaviorTimer
      radius == IF far THEN 600 ELSE 1600 + ScaleRand(r2.num, 1800)
      target == IF repick
                THEN V(pl.position.x + (RandCos(r1.num) * radius) \div 1000,
                       pl.position.y,
                       pl.position.z + (RandSin(r1.num) * radius) \div 1000)
                ELSE cat.wanderTarget
      timer == IF ~repick THEN cat.behaviorTimer
               ELSE IF far THEN 300 ELSE 840 + ScaleRand(r3.num, 960)
      dx == target.x - cat.position.x
      dz == target.z - cat.position.z
      distToTarget == Length2(dx, dz)
      catchup == Clamp(((playerDist2D - 2500) * 1000) \div 6000, 0, 1000)
      targetSpeed == (cat.moveSpeed * (1000 + (catchup * 12) \div 10)) \div 1000
  IN [cat |-> [cat EXCEPT !.seed = IF repick THEN r3.seed ELSE cat.seed,
                          !.wanderTarget = target,
                          !.behaviorTimer = timer],
      desired |-> IF distToTarget > 350 THEN Steer(dx, dz, targetSpeed)
                  ELSE [x |-> 0, z |-> 0],
      distToTarget |-> distToTarget]

\* lines 1233-1269: an uncollected cat idles or wanders
CatWander(cat) ==
  LET pick == cat.behaviorTimer <= 0
      r1 == RandomFloat(cat.seed)                        \* roll
      idle == RandLess(r1.num, 40)
      r2 == RandomFloat(r1.seed)                         \* idle timer, or angle
      r3 == RandomFloat(r2.seed)                         \* dist
      r4 == RandomFloat(r3.seed)                         \* wander timer
      dist == 2000 + ScaleRand(r3.num, 4000)
      c1 == IF ~pick THEN cat
            ELSE IF idle
            THEN [cat EXCEPT !.behavior = "Idle",
                             !.behaviorTimer = 600 + ScaleRand(r2.num, 1200),
                             !.seed = r2.seed]
            ELSE [cat EXCEPT !.behavior = "Wandering",
                             !.wanderTarget =
                                V(cat.position.x + (RandCos(r2.num) * dist) \div 1000,
                                  cat.position.y,
                                  cat.position.z + (RandSin(r2.num) * dist) \div 1000),
                             !.behaviorTimer = 1200 + ScaleRand(r4.num, 1800),
                             !.seed = r4.seed]
      dx == c1.wanderTarget.x - c1.position.x
      dz == c1.wanderTarget.z - c1.position.z
      distToTarget == Length2(dx, dz)
      r5 == RandomFloat(c1.seed)                         \* idle timer on arrival
  IN IF c1.behavior # "Wandering"
     THEN [cat |-> c1, desired |-> [x |-> 0, z |-> 0], distToTarget |-> noTarget]
     ELSE IF distToTarget > 500
     THEN [cat |-> c1, desired |-> Steer(dx, dz, c1.moveSpeed \div 2),
           distToTarget |-> distToTarget]
     ELSE [cat |-> [c1 EXCEPT !.behavior = "Idle",
                              !.behaviorTimer = 600 + ScaleRand(r5.num, 1200),
                              !.seed = r5.seed],
           desired |-> [x |-> 0, z |-> 0],
           distToTarget |-> distToTarget]


\* a search that does not skip the cat itself
RECURSIVE GroomSearchWithSelf(_, _, _, _, _)
GroomSearchWithSelf(cs, catIdx, otherIdx, nearestDist, found) ==
  IF otherIdx >= NumCats THEN found
  ELSE LET other == cs[otherIdx]
           otherSpeed == Length2(other.velocity.x, other.velocity.z)
           dist == Length2(other.position.x - cs[catIdx].position.x,
                           other.position.z - cs[catIdx].position.z)
       IN IF otherSpeed < 200 /\ dist < 1400 /\ dist < nearestDist
          THEN GroomSearchWithSelf(cs, catIdx, otherIdx + 1, dist, otherIdx)
          ELSE GroomSearchWithSelf(cs, catIdx, otherIdx + 1, nearestDist, found)

\* lines 1287-1300: the nearest static cat within 1.4 m, in index order
RECURSIVE GroomSearch(_, _, _, _, _)
GroomSearch(cs, catIdx, otherIdx, nearestDist, found) ==
  IF otherIdx >= NumCats THEN found
  ELSE IF otherIdx = catIdx THEN GroomSearch(cs, catIdx, otherIdx + 1, nearestDist, found)
  ELSE LET other == cs[otherIdx]
           otherSpeed == Length2(other.velocity.x, other.velocity.z)
           dist == Length2(other.position.x - cs[catIdx].position.x,
                           other.position.z - cs[catIdx].position.z)
       IN IF otherSpeed < 200 /\ dist < 1400 /\ dist < nearestDist
          THEN GroomSearch(cs, catIdx, otherIdx + 1, dist, otherIdx)
          ELSE GroomSearch(cs, catIdx, otherIdx + 1, nearestDist, found)

\* lines 1271-1312: an idle animation is cleared by motion or chosen by a roll;
\* cs holds the other cats as they are when this cat is updated
CatIdleAnim(cs, catIdx, cat, pl, desired, distToTarget, playerDist2D) ==
  LET speed2D == Length2(cat.velocity.x, cat.velocity.z)
      canIdle == /\ speed2D < 150
                 /\ cat.velocity.y = 0
                 /\ \/ cat.collected /\ playerDist2D < 2800 /\ distToTarget < 600
                    \/ ~cat.collected /\ cat.behavior = "Idle"
      r1 == RandomFloat(cat.seed)                        \* roll
      r2 == RandomFloat(r1.seed)                         \* duration
  IN IF Length2(desired.x, desired.z) > 200
     THEN [cat EXCEPT !.idleAnim = "None", !.idleAnimTimer = 120,
                      !.groomTarget = -1, !.rollHold = 0]
     ELSE IF canIdle /\ cat.idleAnim = "None" /\ cat.idleAnimTimer <= 0
     THEN IF RandLess(r1.num, 28)
          THEN [cat EXCEPT !.idleAnim = "Groom",
                           !.idleAnimTimer = 7200 + ScaleRand(r2.num, 10800),
                           !.groomTarget =
                              GroomSearch([cs EXCEPT ![catIdx] = cat], catIdx, 0, noTarget, -1),
                           !.seed = r2.seed]
          ELSE IF RandLess(r1.num, 72)
          THEN [cat EXCEPT !.idleAnim = "Loaf",
                           !.idleAnimTimer = 12000 + ScaleRand(r2.num, 132000),
                           !.seed = r2.seed]
          ELSE IF RandLess(r1.num, 86)
          THEN [cat EXCEPT !.idleAnim = "Roll",
                           !.rollHold = 2400 + ScaleRand(r2.num, 2400),
                           !.idleAnimTimer = 1200 + (2400 + ScaleRand(r2.num, 2400)) + 1200,
                           !.seed = r2.seed]
          ELSE [cat EXCEPT !.idleAnimTimer = 600 + ScaleRand(r2.num, 900),
                           !.seed = r2.seed]
     ELSE cat

\* lines 1314-1342: the groomer's hold on its target; cs[catIdx] is the groomer
GroomCoupling(cs, catIdx) ==
  LET cat == cs[catIdx]
  IN IF cat.idleAnim = "Groom" /\ cat.groomTarget >= 0
     THEN LET other == cs[cat.groomTarget]
              dist == Length2(other.position.x - cat.position.x,
                              other.position.z - cat.position.z)
              otherSpeed == Length2(other.velocity.x, other.velocity.z)
          IN IF dist < 1800
             THEN IF otherSpeed < 200 /\ other.velocity.y = 0
                  THEN [cs EXCEPT ![cat.groomTarget].idleAnim = "Groomed",
                                  ![cat.groomTarget].idleAnimTimer = 720]
                  ELSE cs
             ELSE [cs EXCEPT ![catIdx].groomTarget = -1]
     ELSE cs

\* lines 1344-1354: horizontal acceleration (not clamped) and integration
CatMove(cat, desired, dt) ==
  LET accel == (IF cat.collected THEN 18 ELSE 12) * dt
      vel == V(Mix(cat.velocity.x, desired.x, accel, 600),
               cat.velocity.y,
               Mix(cat.velocity.z, desired.z, accel, 600))
  IN Integrate([cat EXCEPT !.velocity = vel], dt)

\* line 1354 for cat catIdx of cs2, the cats after the groom coupling
CatIntegrate(cs2, catIdx, desired, dt) ==
  [cs2 EXCEPT ![catIdx] = CatMove(cs2[catIdx], desired, dt)]

\* lines 1271-1342: idle animation and groom coupling; ai is [cat, desired, distToTarget]
CatAnimate(cs, catIdx, pl, dt, playerDist2D, ai) ==
  CatIntegrate(GroomCoupling([cs EXCEPT ![catIdx] =
                                CatIdleAnim(cs, catIdx, ai.cat, pl, ai.desired,
                                            ai.distToTarget, playerDist2D)], catIdx),
               catIdx, ai.desired, dt)

\* lines 1202-1269: the behaviour of cat c1 at horizontal distance playerDist2D
CatBehave(cs, catIdx, pl, dt, c1, playerDist2D) ==
  CatAnimate(cs, catIdx, pl, dt, playerDist2D,
             IF c1.collected THEN CatFollow(c1, pl, playerDist2D) ELSE CatWander(c1))

\* c1 is the cat after its timers and collision
CatDecide(cs, catIdx, pl, dt, c1) ==
  CatBehave(cs, catIdx, pl, dt, c1,
            Length2(pl.position.x - c1.position.x, pl.position.z - c1.position.z))

\* one iteration of the loop of line 1161
CatUpdate(cs, catIdx, pl, dt) ==
  CatDecide(cs, catIdx, pl, dt, CatTimersAndCollision(cs[catIdx], dt))

RECURSIVE CatLoop(_, _, _, _)
CatLoop(cs, catIdx, pl, dt) ==
  IF catIdx >= NumCats THEN cs
  ELSE CatLoop(CatUpdate(cs, catIdx, pl, dt), catIdx + 1, pl, dt)


----------------------------------------------------------------------------
(* Mummy and bombs (level 2), main.cpp 1373-1458 *)

mummySpeed == 2200
desiredDistance == 8000
throwRange == 26000
bombFuse == 2100               \* 3.5 s
\* a throw cooldown of 0.1 s
throwCooldownShort == bombFuse \div 35
throwCooldownReset == 660      \* 1.1 s
throwCooldownInit == 840       \* 1.4 s
throwCooldownStale == throwCooldownInit
throwCooldownLevel2 == 750     \* 1.25 s
bombGravity == -16000
blastRadius == 2100

InitBomb == [position |-> Zero3, velocity |-> Zero3, timer |-> 0, active |-> FALSE]

\* lines 1373-1409: stand-off movement and solver
MummyMove(mu, pl, dt) ==
  LET tx == pl.position.x - mu.position.x
      tz == pl.position.z - mu.position.z
      moveDir == NormalizeXZ(tx, tz)
      dist2D == Length2(tx, tz)
      approach == Clamp(((dist2D - desiredDistance) * 1000) \div 6000, -1000, 1000)
      vel1 == V((((moveDir.x * mummySpeed) \div 1000) * approach) \div 1000,
                mu.velocity.y + (gravity * dt) \div 600,
                (((moveDir.z * mummySpeed) \div 1000) * approach) \div 1000)
      landed == LandLoop(GroundSnap(Integrate([mu EXCEPT !.velocity = vel1], dt),
                                    enemyHalfSize), enemyHalfSize, 1, {})
  IN [mummy |-> landed.e, dist2D |-> dist2D, snapped |-> landed.snapped]

\* the last inactive bomb of the pool, or -1
LastInactive(bs) ==
  IF \E i \in BombIds : ~bs[i].active
  THEN CHOOSE i \in BombIds : ~bs[i].active /\ \A j \in BombIds : j > i => bs[j].active
  ELSE -1

\* the first inactive bomb of the pool, or -1
FirstInactive(bs) ==
  IF \E i \in BombIds : ~bs[i].active
  THEN CHOOSE i \in BombIds : ~bs[i].active /\ \A j \in BombIds : j < i => bs[j].active
  ELSE -1

\* lines 1411-1429: cooldown and throw
MummyThrow(bs, cooldown, mu, pl, dist2D, dt) ==
  LET cooldown1 == cooldown - dt
      throws == cooldown1 <= 0 /\ dist2D < throwRange
      slot == FirstInactive(bs)
      origin == V(mu.position.x, mu.position.y + enemyHalfSize + 600, mu.position.z)
      throwDir == NormalizeXZ(pl.position.x - origin.x, pl.position.z - origin.z)
      speed == 7500 + Clamp(dist2D \div 16, 0, 1200)
      thrown == [position |-> origin,
                 velocity |-> V((throwDir.x * speed) \div 1000, 6200,
                                (throwDir.z * speed) \div 1000),
                 timer |-> bombFuse,
                 active |-> TRUE]
  IN [bombs |-> IF throws /\ slot >= 0 THEN [bs EXCEPT ![slot] = thrown] ELSE bs,
      cooldown |-> IF throws THEN throwCooldownReset ELSE cooldown1,
      threw |-> throws,
      slot |-> IF throws THEN slot ELSE -1]

\* a bomb that would stay in the pool as active after it exploded
BombStaysActive(exploded) == TRUE

\* line 1456: an exploded bomb is returned to the pool
BombActiveAfter(exploded) == ~exploded

\* a bomb that would explode on its fuse only
BombExplodesOnFuse(hitGround, timer) == timer <= 0

\* lines 1441-1448: a bomb explodes on the ground or when its fuse has run out
BombExplodes(hitGround, timer) == hitGround \/ timer <= 0

\* lines 1434-1458: one bomb's integration and explosion; st is [bombs, player, exploded]
BombUpdate(st, i, dt) ==
  LET bomb == st.bombs[i]
      vy == bomb.velocity.y + (bombGravity * dt) \div 600
      y1 == bomb.position.y + Advance(vy, dt)
      hitGround == y1 <= groundTop + 250
      b1 == [bomb EXCEPT !.timer = bomb.timer - dt,
                         !.velocity.y = vy,
                         !.position = V(bomb.position.x + Advance(bomb.velocity.x, dt),
                                        IF hitGround THEN groundTop + 250 ELSE y1,
                                        bomb.position.z + Advance(bomb.velocity.z, dt))]
      exploded == BombExplodes(hitGround, b1.timer)
      blast == exploded /\ DistanceLess(st.player.position, b1.position, blastRadius)
  IN IF ~bomb.active THEN st
     ELSE [bombs |-> [st.bombs EXCEPT ![i] = [b1 EXCEPT !.active = BombActiveAfter(exploded)]],
           player |-> IF blast
                      THEN [st.player EXCEPT !.position = levelTwoSpawn, !.velocity = Zero3]
                      ELSE st.player,
           exploded |-> IF exploded THEN st.exploded \cup {i} ELSE st.exploded,
           blasts |-> IF blast THEN st.blasts \cup {i} ELSE st.blasts]

RECURSIVE BombLoop(_, _, _)
BombLoop(st, i, dt) ==
  IF i >= NumBombs THEN st ELSE BombLoop(BombUpdate(st, i, dt), i + 1, dt)


----------------------------------------------------------------------------
(* Dogs (level 2), main.cpp 782-814 and 1460-1561 *)

dogRadius == 280
dogPickupRadius == 1150

dogStart == <<V(-14000, 350, -16000), V(-8000, 350, -18000), V(-2000, 350, -15000),
              V(4000, 350, -17000), V(11000, 350, -14000), V(16000, 350, -8000),
              V(14000, 350, -1000), V(9000, 350, 4000), V(2000, 350, 7000),
              V(-5000, 350, 9000), V(-11000, 350, 12000), V(-17000, 350, 9000),
              V(-19000, 350, 2000), V(-18000, 350, -5000), V(-12000, 350, -8000),
              V(-6000, 350, -6000), V(0, 350, -2000), V(7000, 350, -4000),
              V(12000, 350, 10000), V(-2000, 350, 15000)>>

\* dogSeed after i steps of line 808, from 9001u
RECURSIVE DogSeed(_)
DogSeed(i) == IF i = 0 THEN Seed32(9001) ELSE LCG(DogSeed(i - 1))

\* the dog constructed by lines 782-814
InitDog(i) ==
  LET r1 == RandomFloat(DogSeed(i))        \* moveSpeed
      r2 == RandomFloat(r1.seed)           \* turnSpeed
      r3 == RandomFloat(r2.seed)           \* behaviorTimer
      r4 == RandomFloat(r3.seed)           \* facing
  IN [position |-> dogStart[i + 1],
      velocity |-> Zero3,
      onGround |-> FALSE,
      collected |-> FALSE,
      behavior |-> "Idle",
      behaviorTimer |-> 360 + ScaleRand(r3.num, 1320),
      wanderTarget |-> dogStart[i + 1],
      moveSpeed |-> 2400 + ScaleRand(r1.num, 1600),
      seed |-> r4.seed]

\* lines 1476-1494: a collected dog follows the player
DogFollow(dog, pl, distToPlayer, won) ==
  LET far == distToPlayer > 4800
      repick == dog.behaviorTimer <= 0 \/ far
      r1 == RandomFloat(dog.seed)                        \* angle
      r2 == IF far THEN r1 ELSE RandomFloat(r1.seed)     \* radius
      r3 == IF far THEN r1 ELSE RandomFloat(r2.seed)     \* behaviorTimer
      radius == IF far THEN 450 ELSE 1200 + ScaleRand(r2.num, 1500)
      target == IF repick
                THEN V(pl.position.x + (RandCos(r1.num) * radius) \div 1000,
                       pl.position.y,
                       pl.position.z + (RandSin(r1.num) * radius) \div 1000)
                ELSE dog.wanderTarget
      timer == IF ~repick THEN dog.behaviorTimer
               ELSE IF far THEN 210 ELSE 540 + ScaleRand(r3.num, 840)
      dx == target.x - dog.position.x
      dz == target.z - dog.position.z
      distToTarget == Length2(dx, dz)
      catchup == Clamp(((distToPlayer - 2000) * 1000) \div 4500, 0, 1000)
      targetSpeed == (dog.moveSpeed * (1000 + (catchup * 11) \div 10)) \div 1000
  IN [dog |-> [dog EXCEPT !.seed = IF repick THEN r3.seed ELSE dog.seed,
                          !.wanderTarget = target,
                          !.behaviorTimer = timer],
      desired |-> IF distToTarget > 250 /\ ~won THEN Steer(dx, dz, targetSpeed)
                  ELSE [x |-> 0, z |-> 0]]

\* lines 1495-1522: an uncollected dog idles or wanders
DogWander(dog) ==
  LET pick == dog.behaviorTimer <= 0
      r1 == RandomFloat(dog.seed)                        \* roll
      idle == RandLess(r1.num, 45)
      r2 == RandomFloat(r1.seed)                         \* idle timer, or angle
      r3 == RandomFloat(r2.seed)                         \* dist
      r4 == RandomFloat(r3.seed)                         \* wander timer
      dist == 1200 + ScaleRand(r3.num, 2500)
      d1 == IF ~pick THEN dog
            ELSE IF idle
            THEN [dog EXCEPT !.behavior = "Idle",
                             !.behaviorTimer = 480 + ScaleRand(r2.num, 960),
                             !.seed = r2.seed]
            ELSE [dog EXCEPT !.behavior = "Wandering",
                             !.wanderTarget =
                                V(dog.position.x + (RandCos(r2.num) * dist) \div 1000,
                                  dog.position.y,
                                  dog.position.z + (RandSin(r2.num) * dist) \div 1000),
                             !.behaviorTimer = 600 + ScaleRand(r4.num, 1200),
                             !.seed = r4.seed]
      dx == d1.wanderTarget.x - d1.position.x
      dz == d1.wanderTarget.z - d1.position.z
  IN [dog |-> d1,
      desired |-> IF d1.behavior = "Wandering" /\ Length2(dx, dz) > 350
                  THEN Steer(dx, dz, d1.moveSpeed \div 2)
                  ELSE [x |-> 0, z |-> 0]]

\* lines 1463-1474: pickup, behaviour timer and gravity
DogPickup(dog, pl, dt) ==
  LET picked == ~dog.collected /\ DistanceLess(pl.position, dog.position, dogPickupRadius)
  IN [dog EXCEPT !.behaviorTimer = IF picked THEN 0 ELSE dog.behaviorTimer - dt,
                 !.velocity.y = dog.velocity.y + (gravity * dt) \div 600,
                 !.collected = dog.collected \/ picked,
                 !.behavior = IF picked THEN "Following" ELSE dog.behavior]

\* lines 1476-1522: the desired velocity
DogDecide(d1, pl, won) ==
  IF d1.collected
  THEN DogFollow(d1, pl, Length2(pl.position.x - d1.position.x,
                                 pl.position.z - d1.position.z), won)
  ELSE DogWander(d1)

\* lines 1524-1553: acceleration, integration, ground and platform collision
DogSolve(ai, dt) ==
  LET dogAccel == Clamp((IF ai.dog.collected THEN 16 ELSE 10) * dt, 0, 600)
      vel == V(Mix(ai.dog.velocity.x, ai.desired.x, dogAccel, 600),
               ai.dog.velocity.y,
               Mix(ai.dog.velocity.z, ai.desired.z, dogAccel, 600))
  IN LandLoop(GroundSnap(Integrate([ai.dog EXCEPT !.velocity = vel], dt), dogRadius),
              dogRadius, 1, {}).e

\* one iteration of the loop of line 1462
DogUpdate(dog, pl, won, dt) == DogSolve(DogDecide(DogPickup(dog, pl, dt), pl, won), dt)

DogLoop(ds, pl, won, dt) == [i \in DogIds |-> DogUpdate(ds[i], pl, won, dt)]


----------------------------------------------------------------------------
(* Level manager, main.cpp 1357-1371 and 1556-1570 *)

catsNeeded == 10
dogsNeeded == 20
carRadius == 2200

LevelOneCompleteInclusive(announced, count, pl) ==
  ~announced /\ count >= catsNeeded
  /\ DistanceLess(pl.position, carPositionLevel1, carRadius + 1)

\* the level-1 transition condition of line 1357
LevelOneComplete(announced, count, pl) ==
  ~announced /\ count >= catsNeeded /\ DistanceLess(pl.position, carPositionLevel1, carRadius)

WinConditionAnyCount(won, count, pl) ==
  ~won /\ DistanceLess(pl.position, carPositionLevel2, carRadius)

\* the win condition of line 1563
WinCondition(won, count, pl) ==
  ~won /\ count >= dogsNeeded /\ DistanceLess(pl.position, carPositionLevel2, carRadius)

\* lines 1357-1371: the transition check and its effects; cs is the clown step,
\* count and cats2 the collected count and the cats after their update loop
LevelOneEnd(cs, count, cats2, go) ==
  [player |-> IF go
              THEN [cs.player EXCEPT !.position = levelTwoSpawn, !.velocity = Zero3]
              ELSE cs.player,
   clown |-> IF go THEN [cs.clown EXCEPT !.velocity = Zero3] ELSE cs.clown,
   mummy |-> IF go THEN [mummy EXCEPT !.position = mummySpawn, !.velocity = Zero3]
             ELSE mummy,
   mummyThrowCooldown |-> IF go THEN throwCooldownLevel2 ELSE mummyThrowCooldown,
   bombs |-> IF go THEN [i \in BombIds |-> [bombs[i] EXCEPT !.active = FALSE]] ELSE bombs,
   cats |-> cats2,
   dogs |-> dogs,
   currentLevel |-> IF go THEN "Level2Dogs" ELSE currentLevel,
   levelOneAnnounced |-> levelOneAnnounced \/ go,
   hasWon |-> hasWon,
   collectedCount |-> count,
   \* observations
   checkPos |-> cs.player.position,
   enemySolved |-> cs.solved,
   enemyPreY |-> cs.preY,
   enemySnapped |-> cs.snapped,
   contact |-> cs.contact,
   enemyJumped |-> cs.jumped,
   enemyAimed |-> cs.aimed,
   exploded |-> {},
   blasts |-> {},
   threw |-> FALSE,
   slot |-> -1,
   poolAfterThrow |-> bombs]

\* lines 1148-1355: pickup, count and the cat loop, then the transition check
LevelOneCats(cs, picked, dt) ==
  LevelOneEnd(cs, CountCollected(picked), CatLoop(picked, 0, cs.player, dt),
              LevelOneComplete(levelOneAnnounced, CountCollected(picked), cs.player))

\* lines 1032-1371: the level-1 branch of the simulation step; pl is the player
\* after the player step
LevelOneAfterClown(cs, dt) == LevelOneCats(cs, CollectCats(cats, cs.player), dt)

LevelOneStep(pl, dt) == LevelOneAfterClown(ClownStep(clown, pl, hasWon, dt), dt)

\* lines 1556-1570: the dog count and the win check
LevelTwoEnd(mm, th, bl, dogs2, count) ==
  [player |-> bl.player,
   clown |-> clown,
   mummy |-> mm.mummy,
   mummyThrowCooldown |-> th.cooldown,
   bombs |-> bl.bombs,
   cats |-> cats,
   dogs |-> dogs2,
   currentLevel |-> currentLevel,
   levelOneAnnounced |-> levelOneAnnounced,
   hasWon |-> hasWon \/ WinCondition(hasWon, count, bl.player),
   collectedCount |-> count,
   \* observations
   checkPos |-> bl.player.position,
   enemySolved |-> mm.mummy,
   enemyPreY |-> mummy.position.y,
   enemySnapped |-> mm.snapped,
   contact |-> FALSE,
   enemyJumped |-> FALSE,
   enemyAimed |-> clown,
   exploded |-> bl.exploded,
   blasts |-> bl.blasts,
   threw |-> th.threw,
   slot |-> th.slot,
   poolAfterThrow |-> th.bombs]

\* lines 1460-1554: the dog loop
LevelTwoDogs(mm, th, bl, dogs2) == LevelTwoEnd(mm, th, bl, dogs2, CountCollected(dogs2))

\* lines 1431-1458: the bomb loop
LevelTwoBombs(mm, th, bl, dt) == LevelTwoDogs(mm, th, bl, DogLoop(dogs, bl.player, hasWon, dt))

\* lines 1411-1429: the throw
LevelTwoThrow(mm, th, pl, dt) ==
  LevelTwoBombs(mm, th, BombLoop([bombs |-> th.bombs, player |-> pl,
                                  exploded |-> {}, blasts |-> {}], 0, dt), dt)

\* lines 1373-1409: the mummy's movement
LevelTwoMummy(mm, pl, dt) ==
  LevelTwoThrow(mm, MummyThrow(bombs, mummyThrowCooldown, mm.mummy, pl, mm.dist2D, dt), pl, dt)

\* lines 1373-1570: the level-2 branch of the simulation step
LevelTwoStep(pl, dt) == LevelTwoMummy(MummyMove(mummy, pl, dt), pl, dt)


----------------------------------------------------------------------------
(* The frame loop, main.cpp 887-2133 *)

NoDir == [x |-> 0, z |-> 0]

\* line 1575: the point the camera looks at
CameraTarget(pl) == V(pl.position.x, pl.position.y + 900, pl.position.z)

\* what a frame leaves for the properties to read; prev is the frame before
PrevOf(o) == [ran |-> o.ran, dt |-> o.dt, jumped |-> o.jumped,
              startOnGround |-> o.startOnGround, exploded |-> o.exploded,
              airborneSinceJump |-> o.airborneSinceJump]

IdleObs(in, paused) ==
  [ran |-> FALSE, paused |-> paused, dt |-> in.dt, space |-> in.space,
   level |-> currentLevel, wonAtStart |-> hasWon,
   startOnGround |-> player.onGround, startVelocity |-> player.velocity,
   staminaAtStart |-> stamina, wantsSprint |-> FALSE, moving |-> FALSE,
   toggled |-> paused # isPaused,
   heldEscape |-> in.escape /\ wasEscapeDown, risingP |-> in.p /\ ~wasPDown,
   enemyStartVelocity |-> mummy.velocity,
   jumped |-> FALSE, coyoteAtCheck |-> coyoteTimer, bufferAtCheck |-> jumpBufferTimer,
   preY |-> player.position.y, snapped |-> {}, playerSolved |-> player,
   playerStepped |-> player,
   checkPos |-> player.position,
   enemySolved |-> IF currentLevel = "Level1Cats" THEN clown ELSE mummy,
   enemyPreY |-> IF currentLevel = "Level1Cats" THEN clown.position.y ELSE mummy.position.y,
   enemySnapped |-> {}, contact |-> FALSE, exploded |-> {}, blasts |-> {},
   threw |-> FALSE, slot |-> -1, poolAfterThrow |-> bombs,
   enemyJumped |-> FALSE, enemyAimed |-> clown,
   cameraTarget |-> CameraTarget(player),
   airborneSinceJump |-> obs.airborneSinceJump,
   prev |-> PrevOf(obs)]

\* a toggle in every frame in which Esc or P is down
PauseToggleWhileDown(paused, in) == IF in.escape \/ in.p THEN ~paused ELSE paused

\* lines 897-903: the pause toggle on a rising edge of Esc or P
PauseToggle(paused, in) ==
  IF (in.escape /\ ~wasEscapeDown) \/ (in.p /\ ~wasPDown) THEN ~paused ELSE paused

\* a "Reset Player" that would also restart the level
PausedFrameRestart(in) ==
  /\ player' = IF in.reset
               THEN [player EXCEPT !.position = levelOneSpawn, !.velocity = Zero3]
               ELSE [player EXCEPT !.velocity = Zero3]
  /\ currentLevel' = IF in.reset THEN "Level1Cats" ELSE currentLevel
  /\ clown' = [clown EXCEPT !.velocity.x = 0, !.velocity.z = 0]
  /\ mummy' = [mummy EXCEPT !.velocity.x = 0, !.velocity.z = 0]
  /\ isPaused' = ~in.resume
  /\ running' = ~in.quit
  /\ obs' = IdleObs(in, TRUE)
  /\ UNCHANGED <<coyoteTimer, jumpBufferTimer, stamina, mummyThrowCooldown, cats, dogs,
                 bombs, levelOneAnnounced, hasWon, collectedCount>>

\* lines 910-916 and 2098-2124: a paused frame and the pause menu
PausedFrame(in) ==
  LET spawn == IF currentLevel = "Level1Cats" THEN levelOneSpawn ELSE levelTwoSpawn
  IN /\ player' = IF in.reset
                  THEN [player EXCEPT !.position = spawn, !.velocity = Zero3]
                  ELSE [player EXCEPT !.velocity = Zero3]
     /\ clown' = [clown EXCEPT !.velocity.x = 0, !.velocity.z = 0]
     /\ mummy' = [mummy EXCEPT !.velocity.x = 0, !.velocity.z = 0]
     /\ isPaused' = ~in.resume
     /\ running' = ~in.quit
     /\ obs' = IdleObs(in, TRUE)
     /\ UNCHANGED <<coyoteTimer, jumpBufferTimer, stamina, mummyThrowCooldown, cats, dogs,
                    bombs, currentLevel, levelOneAnnounced, hasWon, collectedCount>>

\* the assignments of an unpaused frame: ps is the player step, lv the level step
Commit(in, ps, lv) ==
  /\ player' = lv.player
  /\ coyoteTimer' = ps.coyoteTimer
  /\ jumpBufferTimer' = ps.jumpBufferTimer
  /\ stamina' = ps.stamina
  /\ clown' = lv.clown
  /\ mummy' = lv.mummy
  /\ mummyThrowCooldown' = lv.mummyThrowCooldown
  /\ cats' = lv.cats
  /\ dogs' = lv.dogs
  /\ bombs' = lv.bombs
  /\ currentLevel' = lv.currentLevel
  /\ levelOneAnnounced' = lv.levelOneAnnounced
  /\ hasWon' = lv.hasWon
  /\ collectedCount' = lv.collectedCount
  /\ isPaused' = FALSE
  /\ running' = TRUE
  /\ obs' = [IdleObs(in, FALSE) EXCEPT
               !.ran = TRUE,
               !.jumped = ps.jumped,
               !.wantsSprint = ps.wantsSprint,
               !.moving = ps.moving,
               !.coyoteAtCheck = ps.coyoteAtCheck,
               !.bufferAtCheck = ps.bufferAtCheck,
               !.snapped = ps.snapped,
               !.playerSolved = ps.solved,
               !.playerStepped = ps.player,
               !.checkPos = lv.checkPos,
               !.enemySolved = lv.enemySolved,
               !.enemyPreY = lv.enemyPreY,
               !.enemySnapped = lv.enemySnapped,
               !.contact = lv.contact,
               !.exploded = lv.exploded,
               !.blasts = lv.blasts,
               !.threw = lv.threw,
               !.slot = lv.slot,
               !.poolAfterThrow = lv.poolAfterThrow,
               !.enemyJumped = lv.enemyJumped,
               !.enemyAimed = lv.enemyAimed,
               !.cameraTarget = CameraTarget(lv.player),
               !.airborneSinceJump =
                  IF ps.jumped THEN TRUE
                  ELSE obs.airborneSinceJump /\ ~ps.solved.onGround]

\* a frame whose antagonist would act on the player as the frame found it
LevelStepStalePlayer(in, ps) ==
  Commit(in, ps, IF currentLevel = "Level1Cats" THEN LevelOneStep(player, in.dt)
                 ELSE LevelTwoStep(player, in.dt))

\* lines 1032 and 1373: the branch on the level
LevelStep(in, ps) ==
  Commit(in, ps, IF currentLevel = "Level1Cats" THEN LevelOneStep(ps.player, in.dt)
                 ELSE LevelTwoStep(ps.player, in.dt))

\* lines 947-1572: the simulation step of an unpaused frame
SimFrame(in) ==
  LevelStep(in, PlayerStep(player, coyoteTimer, jumpBufferTimer, stamina, hasWon, in))

\* lines 887-903: what every iteration of the loop does first
FrameStart(in) ==
  /\ process.stage = "loop"
  /\ running
  /\ process' = process
  /\ rng' = rng
  /\ streams' = streams
  /\ frameNo' = frameNo + 1
  /\ wasEscapeDown' = in.escape
  /\ wasPDown' = in.p

\* one iteration of the loop of line 887 that ends paused
Paused(in) == FrameStart(in) /\ PauseToggle(isPaused, in) /\ PausedFrame(in)

\* one iteration of the loop of line 887 that runs the simulation
Unpaused(in) == FrameStart(in) /\ ~PauseToggle(isPaused, in) /\ SimFrame(in)

\* the input of one frame
Input(dt, dir, space, shift, escape, pkey, resume, reset, quit) ==
  [dt |-> dt, dir |-> dir, space |-> space, shift |-> shift, escape |-> escape,
   p |-> pkey, resume |-> resume, reset |-> reset, quit |-> quit]

Sim(dt, dir, space) == Input(dt, dir, space, FALSE, FALSE, FALSE, FALSE, FALSE, FALSE)
Run(dt, dir, shift) == Input(dt, dir, FALSE, shift, FALSE, FALSE, FALSE, FALSE, FALSE)
PressEscape == Input(10, NoDir, FALSE, FALSE, TRUE, FALSE, FALSE, FALSE, FALSE)
PressP == Input(10, NoDir, FALSE, FALSE, FALSE, TRUE, FALSE, FALSE, FALSE)
ClickResume == Input(10, NoDir, FALSE, FALSE, FALSE, FALSE, TRUE, FALSE, FALSE)
ClickReset == Input(10, NoDir, FALSE, FALSE, FALSE, FALSE, FALSE, TRUE, FALSE)
ClickQuit == Input(10, NoDir, FALSE, FALSE, FALSE, FALSE, FALSE, FALSE, TRUE)
Keys(escape, pkey, resume) ==
  Input(10, NoDir, FALSE, FALSE, escape, pkey, resume, FALSE, FALSE)

East == [x |-> 1000, z |-> 0]
West == [x |-> -1000, z |-> 0]

NoObs ==
  [ran |-> FALSE, paused |-> FALSE, dt |-> 0, space |-> FALSE,
   level |-> "Level1Cats", wonAtStart |-> FALSE,
   startOnGround |-> FALSE, startVelocity |-> Zero3, enemyStartVelocity |-> Zero3,
   staminaAtStart |-> staminaFull, wantsSprint |-> FALSE, moving |-> FALSE,
   toggled |-> FALSE, heldEscape |-> FALSE, risingP |-> FALSE,
   jumped |-> FALSE, coyoteAtCheck |-> 0, bufferAtCheck |-> 0,
   preY |-> 0, snapped |-> {},
   playerSolved |-> [position |-> playerSpawn, velocity |-> Zero3, onGround |-> FALSE],
   playerStepped |-> [position |-> playerSpawn, velocity |-> Zero3, onGround |-> FALSE],
   checkPos |-> playerSpawn,
   enemySolved |-> [position |-> V(4000, 0, -4000), velocity |-> Zero3,
                    onGround |-> FALSE, jumpCooldown |-> 0],
   enemyPreY |-> 0, enemySnapped |-> {}, contact |-> FALSE, exploded |-> {}, blasts |-> {},
   threw |-> FALSE, slot |-> -1,
   poolAfterThrow |-> [i \in BombIds |-> InitBomb],
   enemyJumped |-> FALSE,
   enemyAimed |-> [position |-> clownSpawn, velocity |-> Zero3, onGround |-> FALSE,
                  jumpCooldown |-> 0],
   airborneSinceJump |-> FALSE,
   cameraTarget |-> Zero3,
   prev |-> [ran |-> FALSE, dt |-> 0, jumped |-> FALSE, startOnGround |-> FALSE,
             exploded |-> {}, airborneSinceJump |-> FALSE]]

\* the state after construction, lines 725-882
BootState ==
  [player |-> [position |-> playerSpawn, velocity |-> Zero3, onGround |-> FALSE],
   coyoteTimer |-> 0,
   jumpBufferTimer |-> 0,
   stamina |-> staminaFull,
   clown |-> [position |-> V(4000, 0, -4000), velocity |-> Zero3,
              onGround |-> FALSE, jumpCooldown |-> 0],
   mummy |-> [position |-> mummySpawn, velocity |-> Zero3,
              onGround |-> FALSE, jumpCooldown |-> 0],
   mummyThrowCooldown |-> throwCooldownInit,
   cats |-> [i \in CatIds |-> InitCat(i)],
   dogs |-> [i \in DogIds |-> InitDog(i)],
   bombs |-> [i \in BombIds |-> InitBomb],
   currentLevel |-> "Level1Cats",
   levelOneAnnounced |-> FALSE,
   hasWon |-> FALSE,
   collectedCount |-> 0]

\* a seed variable that RandomFloat has not been called on yet
NoDraw(seed) == [before |-> seed, seed |-> seed, num |-> 0, calls |-> 0]

\* no draw of a cat or a dog has been recorded
NoStreams ==
  [seeded |-> 0, loopDraws |-> 0,
   cat |-> [i \in CatIds |-> << >>], dog |-> [i \in DogIds |-> << >>]]

\* main() has passed every initialization step and is at the loop of line 887
InLoop == [stage |-> "loop", errLines |-> 0, returnValue |-> -1, failure |-> "none"]

\* the loop is about to run a frame from the game state st, unpaused
StartFrom(st) ==
  /\ player = st.player
  /\ coyoteTimer = st.coyoteTimer
  /\ jumpBufferTimer = st.jumpBufferTimer
  /\ stamina = st.stamina
  /\ clown = st.clown
  /\ mummy = st.mummy
  /\ mummyThrowCooldown = st.mummyThrowCooldown
  /\ cats = st.cats
  /\ dogs = st.dogs
  /\ bombs = st.bombs
  /\ currentLevel = st.currentLevel
  /\ levelOneAnnounced = st.levelOneAnnounced
  /\ hasWon = st.hasWon
  /\ collectedCount = st.collectedCount
  /\ isPaused = FALSE
  /\ wasEscapeDown = FALSE
  /\ wasPDown = FALSE
  /\ running = TRUE
  /\ process = InLoop
  /\ rng = NoDraw(Seed32(42))
  /\ streams = NoStreams
  /\ frameNo = 0
  /\ obs = NoObs

Boot == StartFrom(BootState)

----------------------------------------------------------------------------
(* Game states later in a play-through.  Each is taken at the frame after the *)
(* pause menu was closed: a paused frame zeroes the player's velocity and the *)
(* antagonists' horizontal velocity (lines 910-916), and nothing else moves.  *)

\* where each cat rests before it is collected: platform top + catRadius
restCatY == <<300, 300, 1600, 2000, 3600, 2400, 3600, 2200, 3000, 5200>>

RestingCat(i) == [InitCat(i) EXCEPT !.position.y = restCatY[i + 1]]

\* a collected cat waiting at pos
FollowingCat(i, pos) ==
  [InitCat(i) EXCEPT !.position = pos, !.collected = TRUE, !.behavior = "Following",
                     !.behaviorTimer = 300, !.wanderTarget = pos]

RestingDog(i) ==
  [InitDog(i) EXCEPT !.position.y = groundTop + dogRadius, !.onGround = TRUE]

\* a collected dog waiting at pos
FollowingDog(i, pos) ==
  [InitDog(i) EXCEPT !.position = pos, !.onGround = TRUE, !.collected = TRUE,
                     !.behavior = "Following", !.behaviorTimer = 300, !.wanderTarget = pos]

Standing(pos) == [position |-> pos, velocity |-> Zero3, onGround |-> TRUE]
Chasing(pos) == [position |-> pos, velocity |-> Zero3, onGround |-> TRUE, jumpCooldown |-> 0]

\* level 1, nine cats follow the player, who stands 2.2 m west of the first car;
\* the tenth cat is at lastCat
AtCar1(lastCat) ==
  [BootState EXCEPT
     !.player = Standing(V(15800, 0, 16000)),
     !.coyoteTimer = coyoteTimeMax,
     !.clown = Chasing(V(6000, groundTop + enemyHalfSize, 8000)),
     !.cats = [i \in CatIds |->
                 IF i < 9
                 THEN FollowingCat(i, V(14600 - 350 * i, catRadius, 15600 + 400 * (i % 3)))
                 ELSE [RestingCat(i) EXCEPT !.position = lastCat]],
     !.collectedCount = 9]

\* level 2, nineteen dogs follow the player, who stands 2.2 m east of the second
\* car; the twentieth dog is at lastDog and the mummy 14 m to the east
AtCar2(lastDog) ==
  [BootState EXCEPT
     !.player = Standing(V(-15800, 0, 18000)),
     !.coyoteTimer = coyoteTimeMax,
     !.clown = Chasing(V(6000, groundTop + enemyHalfSize, 8000)),
     !.mummy = Chasing(V(-1800, groundTop + enemyHalfSize, 18000)),
     !.mummyThrowCooldown = 30,
     !.cats = [i \in CatIds |->
                 FollowingCat(i, V(16000 - 350 * i, catRadius, 15600 + 400 * (i % 3)))],
     !.dogs = [i \in DogIds |->
                 IF i < 19
                 THEN FollowingDog(i, V(-14600 + 200 * i, groundTop + dogRadius,
                                        17600 + 400 * (i % 3)))
                 ELSE [RestingDog(i) EXCEPT !.position = lastDog]],
     !.currentLevel = "Level2Dogs",
     !.levelOneAnnounced = TRUE,
     !.collectedCount = 19]

\* level 1, the player stands at the east edge of platform 1, the clown at clownAt
OnEdge(clownAt) ==
  [BootState EXCEPT
     !.player = Standing(V(6290, PlatformTop(1) + playerHalfSize, 0)),
     !.coyoteTimer = coyoteTimeMax,
     !.clown = Chasing(clownAt),
     !.cats = [i \in CatIds |-> RestingCat(i)]]

\* level 2, the player stands at the east edge of platform 1; a bomb the mummy
\* threw from 8 m to the west 0.92 s ago is about to land below the edge
EdgeUnderFire ==
  [BootState EXCEPT
     !.player = Standing(V(6290, PlatformTop(1) + playerHalfSize, 0)),
     !.coyoteTimer = coyoteTimeMax,
     !.clown = Chasing(clownSpawn),
     !.mummy = Chasing(V(-1700, groundTop + enemyHalfSize, 0)),
     !.mummyThrowCooldown = 109,
     !.cats = [i \in CatIds |->
                 FollowingCat(i, V(16000 - 350 * i, catRadius, 15600 + 400 * (i % 3)))],
     !.dogs = [i \in DogIds |-> RestingDog(i)],
     !.bombs = [i \in BombIds |->
                  IF i = 0
                  THEN [position |-> V(6000, -50, 0), velocity |-> V(8000, -8600, 0),
                        timer |-> 1549, active |-> TRUE]
                  ELSE InitBomb],
     !.currentLevel = "Level2Dogs",
     !.levelOneAnnounced = TRUE]

\* level 1, the player is near the top of a jump from the ground, below
\* platforms 8 and 9 where they overlap
UnderOverlap ==
  [BootState EXCEPT
     !.player = [position |-> V(-13000, 1200, -5000), velocity |-> Zero3,
                 onGround |-> FALSE],
     !.clown = Chasing(clownSpawn),
     !.cats = [i \in CatIds |-> RestingCat(i)]]

\* level 1, cat 5 was picked up from below platform 6 and follows the player,
\* who stands on the ground east of the platform
CatAtEdge ==
  [BootState EXCEPT
     !.player = Standing(V(15000, 0, -6000)),
     !.coyoteTimer = coyoteTimeMax,
     !.clown = Chasing(clownSpawn),
     !.cats = [i \in CatIds |->
                 IF i = 5
                 THEN [FollowingCat(i, V(11850, PlatformTop(6) + catRadius, -6000))
                         EXCEPT !.behaviorTimer = 600,
                                !.wanderTarget = V(13000, 0, -6000)]
                 ELSE RestingCat(i)],
     !.collectedCount = 1]

\* level 1, the player stands on the ground at the origin with stamina stam left
Tired(stam) ==
  [BootState EXCEPT
     !.player = Standing(V(0, groundTop + playerHalfSize, 0)),
     !.coyoteTimer = coyoteTimeMax,
     !.stamina = stam,
     !.clown = Chasing(clownSpawn),
     !.cats = [i \in CatIds |-> RestingCat(i)]]

\* the seed after k more calls of RandomFloat
RECURSIVE SeedAfter(_, _)
SeedAfter(seed, k) == IF k = 0 THEN seed ELSE SeedAfter(LCG(seed), k - 1)

\* level 1, cats 0 and 1 were collected and wait near the player, 0.7 m or 1.6 m
\* apart; cat 1 has made three picks of a follow target since its construction
\* and its idle timer is about to run out
CatsMeet(groomerAt) ==
  [BootState EXCEPT
     !.player = Standing(V(0, groundTop + playerHalfSize, 0)),
     !.coyoteTimer = coyoteTimeMax,
     !.clown = Chasing(clownSpawn),
     !.cats = [i \in CatIds |->
                 IF i = 0
                 THEN [FollowingCat(0, V(1000, catRadius, 0))
                         EXCEPT !.seed = SeedAfter(CatSeed(0), 8)]
                 ELSE IF i = 1
                 THEN [FollowingCat(1, groomerAt)
                         EXCEPT !.seed = SeedAfter(CatSeed(1), 14), !.idleAnimTimer = 5]
                 ELSE RestingCat(i)],
     !.collectedCount = 2]

\* the same place later: cat 1 grooms cat 0, whose follow timer is about to run
\* out
CatsGroom(groomerAt) ==
  [CatsMeet(groomerAt) EXCEPT
     !.cats[0].idleAnim = "Groomed",
     !.cats[0].idleAnimTimer = 720,
     !.cats[0].behaviorTimer = 5,
     !.cats[1].idleAnim = "Groom",
     !.cats[1].idleAnimTimer = 7000,
     !.cats[1].groomTarget = 0,
     !.cats[1].seed = SeedAfter(CatSeed(1), 16)]

\* level 2, the player stands at playerAt and the mummy, 2 m east of the centre
\* of the arena, is about to throw
MummyReady(playerAt) ==
  [BootState EXCEPT
     !.player = Standing(playerAt),
     !.coyoteTimer = coyoteTimeMax,
     !.clown = Chasing(clownSpawn),
     !.mummy = Chasing(V(2000, groundTop + enemyHalfSize, 0)),
     !.mummyThrowCooldown = 30,
     !.cats = [i \in CatIds |->
                 FollowingCat(i, V(16000 - 350 * i, catRadius, 15600 + 400 * (i % 3)))],
     !.dogs = [i \in DogIds |-> RestingDog(i)],
     !.currentLevel = "Level2Dogs",
     !.levelOneAnnounced = TRUE]

\* level 1, the player waits with cats 0 and 1 and the clown is 1.3 m away
Cornered ==
  [CatsMeet(V(1500, catRadius, 500)) EXCEPT
     !.clown = Chasing(V(-1300, groundTop + enemyHalfSize, 0))]

\* level 1, the player stands on the ground at the origin, the clown is far off
\* in the south-west corner
Hopping ==
  [Tired(staminaFull) EXCEPT
     !.clown = Chasing(V(-19000, groundTop + enemyHalfSize, -19000))]

\* level 1, the player stands on platform 1 and the clown is in the air, 0.4 s
\* after it jumped at the player
ClownMidJump ==
  [OnEdge(clownSpawn) EXCEPT
     !.clown = [position |-> V(4500, 2110, -3000), velocity |-> V(0, 1800, 0),
                onGround |-> FALSE, jumpCooldown |-> 30]]

----------------------------------------------------------------------------
(* Specifications *)

MaxFrames == 3
MaxJumpFrames == 3
MaxFallFrames == 5

MenuInputs == {PressEscape, PressP, ClickResume, ClickReset, ClickQuit}

LevelInputs ==
  {Sim(dt, dir, FALSE) : dt \in {10, 60}, dir \in {NoDir, East, West}}
    \cup {Sim(10, NoDir, TRUE)} \cup MenuInputs

JumpInputs ==
  {Sim(dt, dir, space) : dt \in {10, 60, 90}, dir \in {NoDir, East}, space \in BOOLEAN}
    \cup {PressEscape, ClickResume}

FallInputs == {Sim(10, NoDir, FALSE), Sim(60, NoDir, FALSE), PressEscape, ClickResume}

\* the game from its start and around the two cars
Init ==
  \/ Boot
  \/ \E lastCat \in {V(16900, catRadius, 16000), V(-6000, 5200, 9000)} :
       StartFrom(AtCar1(lastCat))
  \/ \E lastDog \in {V(-16800, groundTop + dogRadius, 18000),
                     V(-2000, groundTop + dogRadius, 15000)} :
       StartFrom(AtCar2(lastDog))

Next ==
  \/ \E in \in LevelInputs : frameNo < MaxFrames /\ Unpaused(in)
  \/ \E in \in LevelInputs : frameNo < MaxFrames /\ Paused(in)

Spec == Init /\ [][Next]_vars

\* jumping and landing
InitJump ==
  \/ \E clownAt \in {V(5150, PlatformTop(1) + enemyHalfSize, 0), clownSpawn} :
       StartFrom(OnEdge(clownAt))
  \/ StartFrom(UnderOverlap)
  \/ StartFrom(EdgeUnderFire)

NextJump ==
  \/ \E in \in JumpInputs : frameNo < MaxJumpFrames /\ Unpaused(in)
  \/ \E in \in JumpInputs : frameNo < MaxJumpFrames /\ Paused(in)

SpecJump == InitJump /\ [][NextJump]_vars

\* a cat walking off a platform
InitFall == StartFrom(CatAtEdge)

NextFall ==
  \/ \E in \in FallInputs : frameNo < MaxFallFrames /\ Unpaused(in)
  \/ \E in \in FallInputs : frameNo < MaxFallFrames /\ Paused(in)

SpecFall == InitFall /\ [][NextFall]_vars

\* sprinting
MaxSprintFrames == 3

SprintInputs ==
  {Run(dt, dir, shift) : dt \in {10, 60, 90}, dir \in {NoDir, East}, shift \in BOOLEAN}
    \cup {PressEscape, ClickResume}

InitSprint == \E stam \in {600, 650, staminaFull} : StartFrom(Tired(stam))

NextSprint ==
  \/ \E in \in SprintInputs : frameNo < MaxSprintFrames /\ Unpaused(in)
  \/ \E in \in SprintInputs : frameNo < MaxSprintFrames /\ Paused(in)

SpecSprint == InitSprint /\ [][NextSprint]_vars

\* cats grooming each other
MaxGroomFrames == 4

GroomInputs ==
  {Sim(dt, dir, FALSE) : dt \in {10, 60}, dir \in {NoDir, East}}
    \cup {PressEscape, ClickResume}

InitGroom ==
  \E groomerAt \in {V(1500, catRadius, 500), V(2500, catRadius, 500)} :
    \/ StartFrom(CatsMeet(groomerAt))
    \/ StartFrom(CatsGroom(groomerAt))

NextGroom ==
  \/ \E in \in GroomInputs : frameNo < MaxGroomFrames /\ Unpaused(in)
  \/ \E in \in GroomInputs : frameNo < MaxGroomFrames /\ Paused(in)

SpecGroom == InitGroom /\ [][NextGroom]_vars

\* the antagonists' cooldowns
MaxChaseFrames == 3

ChaseInputs ==
  {Sim(dt, dir, FALSE) : dt \in {10, 60}, dir \in {NoDir, East}}
    \cup {PressEscape, ClickResume}

InitChase ==
  \/ \E playerAt \in {V(-20000, groundTop + playerHalfSize, -20000),
                       V(-24050, groundTop + playerHalfSize, 0),
                       V(-6000, groundTop + playerHalfSize, 0)} :
       StartFrom(MummyReady(playerAt))
  \/ StartFrom(ClownMidJump)
  \/ StartFrom(Cornered)

NextChase ==
  \/ \E in \in ChaseInputs : frameNo < MaxChaseFrames /\ Unpaused(in)
  \/ \E in \in ChaseInputs : frameNo < MaxChaseFrames /\ Paused(in)

SpecChase == InitChase /\ [][NextChase]_vars

\* main() from its first line: initialization, the loop, the return
MaxStartFrames == 3
MaxLogNewlines == 1

\* lines 588-589, 598-600, 608-610: one line on std::cerr, then return 1
Fail(what) ==
  [stage |-> "exited", errLines |-> process.errLines + 1, returnValue |-> 1,
   failure |-> what]

\* lines 587-590: glfwInit
GlfwInit(ok) ==
  /\ process.stage = "glfwInit"
  /\ process' = IF ok THEN [process EXCEPT !.stage = "createWindow"] ELSE Fail("glfw")
  /\ UNCHANGED <<player, coyoteTimer, jumpBufferTimer, stamina, clown, mummy,
                 mummyThrowCooldown, cats, dogs, bombs, currentLevel, levelOneAnnounced,
                 hasWon, collectedCount, isPaused, wasEscapeDown, wasPDown, running,
                 frameNo, obs, rng, streams>>

\* lines 596-601: glfwCreateWindow
CreateWindow(ok) ==
  /\ process.stage = "createWindow"
  /\ process' = IF ok THEN [process EXCEPT !.stage = "loadGL"] ELSE Fail("window")
  /\ UNCHANGED <<player, coyoteTimer, jumpBufferTimer, stamina, clown, mummy,
                 mummyThrowCooldown, cats, dogs, bombs, currentLevel, levelOneAnnounced,
                 hasWon, collectedCount, isPaused, wasEscapeDown, wasPDown, running,
                 frameNo, obs, rng, streams>>

\* lines 607-611: gladLoadGL
LoadGL(ok) ==
  /\ process.stage = "loadGL"
  /\ process' = IF ok THEN [process EXCEPT !.stage = "shader"] ELSE Fail("loader")
  /\ UNCHANGED <<player, coyoteTimer, jumpBufferTimer, stamina, clown, mummy,
                 mummyThrowCooldown, cats, dogs, bombs, currentLevel, levelOneAnnounced,
                 hasWon, collectedCount, isPaused, wasEscapeDown, wasPDown, running,
                 frameNo, obs, rng, streams>>

\* what the file system and the driver answer to Shader::Load: each source file
\* is missing, empty or has text; each shader compiles or not; the program links
\* or not; the driver's info log holds some number of newlines
ShaderOutcomes ==
  [vert : {"missing", "empty", "text"}, frag : {"missing", "empty", "text"},
   vertCompiles : BOOLEAN, fragCompiles : BOOLEAN, links : BOOLEAN,
   logNewlines : 0..MaxLogNewlines]

\* lines 26-35: ReadFile writes one line when the file cannot be opened
ReadFileLines(file) == IF file = "missing" THEN 1 ELSE 0

\* lines 146-197: Shader::Load, [ok, lines]: the result and the lines it wrote
ShaderLoad(sh) ==
  LET read == ReadFileLines(sh.vert) + ReadFileLines(sh.frag)
  IN IF sh.vert # "text" \/ sh.frag # "text" THEN [ok |-> FALSE, lines |-> read]
     ELSE IF ~sh.vertCompiles THEN [ok |-> FALSE, lines |-> 1 + sh.logNewlines]
     ELSE IF ~sh.fragCompiles THEN [ok |-> FALSE, lines |-> 1 + sh.logNewlines]
     ELSE IF ~sh.links THEN [ok |-> FALSE, lines |-> 1 + sh.logNewlines]
     ELSE [ok |-> TRUE, lines |-> 0]

\* lines 630-635: the shader is loaded, or main returns 1
LoadShader(sh) ==
  /\ process.stage = "shader"
  /\ process' = IF ShaderLoad(sh).ok THEN [process EXCEPT !.stage = "loop"]
                ELSE [stage |-> "exited",
                      errLines |-> process.errLines + ShaderLoad(sh).lines,
                      returnValue |-> 1, failure |-> "shader"]
  /\ UNCHANGED <<player, coyoteTimer, jumpBufferTimer, stamina, clown, mummy,
                 mummyThrowCooldown, cats, dogs, bombs, currentLevel, levelOneAnnounced,
                 hasWon, collectedCount, isPaused, wasEscapeDown, wasPDown, running,
                 frameNo, obs, rng, streams>>

\* lines 887 and 2158-2159: the loop ends and main returns 0
LoopExit ==
  /\ process.stage = "loop"
  /\ ~running
  /\ process' = [process EXCEPT !.stage = "exited", !.returnValue = 0]
  /\ UNCHANGED <<player, coyoteTimer, jumpBufferTimer, stamina, clown, mummy,
                 mummyThrowCooldown, cats, dogs, bombs, currentLevel, levelOneAnnounced,
                 hasWon, collectedCount, isPaused, wasEscapeDown, wasPDown, running,
                 frameNo, obs, rng, streams>>

StartInputs ==
  {Sim(dt, dir, FALSE) : dt \in {10, 60}, dir \in {NoDir, East}}
    \cup {PressEscape, ClickResume, ClickQuit}

\* line 586: main is entered; the game objects take the values of lines 725-882
\* when their declarations are reached
InitStart ==
  /\ player = BootState.player
  /\ coyoteTimer = BootState.coyoteTimer
  /\ jumpBufferTimer = BootState.jumpBufferTimer
  /\ stamina = BootState.stamina
  /\ clown = BootState.clown
  /\ mummy = BootState.mummy
  /\ mummyThrowCooldown = BootState.mummyThrowCooldown
  /\ cats = BootState.cats
  /\ dogs = BootState.dogs
  /\ bombs = BootState.bombs
  /\ currentLevel = BootState.currentLevel
  /\ levelOneAnnounced = BootState.levelOneAnnounced
  /\ hasWon = BootState.hasWon
  /\ collectedCount = BootState.collectedCount
  /\ isPaused = FALSE
  /\ wasEscapeDown = FALSE
  /\ wasPDown = FALSE
  /\ running = TRUE
  /\ process = [InLoop EXCEPT !.stage = "glfwInit"]
  /\ rng = NoDraw(Seed32(42))
  /\ streams = NoStreams
  /\ frameNo = 0
  /\ obs = NoObs

NextStart ==
  \/ \E ok \in BOOLEAN : GlfwInit(ok)
  \/ \E ok \in BOOLEAN : CreateWindow(ok)
  \/ \E ok \in BOOLEAN : LoadGL(ok)
  \/ \E sh \in ShaderOutcomes : LoadShader(sh)
  \/ \E in \in StartInputs : frameNo < MaxStartFrames /\ Unpaused(in)
  \/ \E in \in StartInputs : frameNo < MaxStartFrames /\ Paused(in)
  \/ LoopExit

SpecStart == InitStart /\ [][NextStart]_vars

\* RandomFloat on its own, called on seeds from all over the 32-bit range
MaxDraws == 2

RandomSeeds ==
  {[hi |-> 242, lo |-> lo] : lo \in 29100..29199}
    \cup {Seed32(0), Seed32(42), Seed32(4242), [hi |-> 32768, lo |-> 0],
          [hi |-> 65535, lo |-> 65535]}

\* lines 53-56: one call of RandomFloat(seed) on the caller's seed
Draw ==
  /\ rng.calls < MaxDraws
  /\ rng' = [before |-> rng.seed, seed |-> RandomFloat(rng.seed).seed,
             num |-> RandomFloat(rng.seed).num, calls |-> rng.calls + 1]
  /\ UNCHANGED <<player, coyoteTimer, jumpBufferTimer, stamina, clown, mummy,
                 mummyThrowCooldown, cats, dogs, bombs, currentLevel, levelOneAnnounced,
                 hasWon, collectedCount, isPaused, wasEscapeDown, wasPDown, running,
                 process, streams, frameNo, obs>>

InitRandom ==
  \E seed \in RandomSeeds :
    /\ player = BootState.player
    /\ coyoteTimer = BootState.coyoteTimer
    /\ jumpBufferTimer = BootState.jumpBufferTimer
    /\ stamina = BootState.stamina
    /\ clown = BootState.clown
    /\ mummy = BootState.mummy
    /\ mummyThrowCooldown = BootState.mummyThrowCooldown
    /\ cats = BootState.cats
    /\ dogs = BootState.dogs
    /\ bombs = BootState.bombs
    /\ currentLevel = BootState.currentLevel
    /\ levelOneAnnounced = BootState.levelOneAnnounced
    /\ hasWon = BootState.hasWon
    /\ collectedCount = BootState.collectedCount
    /\ isPaused = FALSE
    /\ wasEscapeDown = FALSE
    /\ wasPDown = FALSE
    /\ running = TRUE
    /\ process = InLoop
    /\ rng = NoDraw(seed)
    /\ streams = NoStreams
    /\ frameNo = 0
    /\ obs = NoObs

NextRandom == Draw

SpecRandom == InitRandom /\ [][NextRandom]_vars

\* the mummy throwing bomb after bomb at a player who stands 8 m away
MaxBarrageFrames == 12

BarrageInputs == {Sim(60, NoDir, FALSE), Sim(50, NoDir, FALSE)}

InitBarrage == StartFrom(MummyReady(V(-6000, groundTop + playerHalfSize, 0)))

NextBarrage ==
  \/ \E in \in BarrageInputs : frameNo < MaxBarrageFrames /\ Unpaused(in)
  \/ \E in \in {PressEscape, ClickResume} : frameNo < 2 /\ Paused(in)

SpecBarrage == InitBarrage /\ [][NextBarrage]_vars

----------------------------------------------------------------------------
(* The personality loops of lines 770-781 and 805-814, cat after cat and then
   dog after dog, followed by calls of RandomFloat on the seeds of single cats
   and dogs as the frame loop makes them (lines 1211-1309 and 1478-1505). *)

MaxLoopDraws == 3

\* the values of n successive calls of RandomFloat on a seed
RECURSIVE Drawn(_, _)
Drawn(seed, n) ==
  IF n = 0 THEN << >>
  ELSE <<RandomFloat(seed).num>> \o Drawn(RandomFloat(seed).seed, n - 1)

\* a cat as line 757 constructs it, with the defaults of lines 256-278
NewCat(i) ==
  [InitCat(i) EXCEPT !.seed = Seed32(0), !.moveSpeed = 3000,
                     !.behaviorTimer = 0, !.idleAnimTimer = 0]

\* a dog as line 782 constructs it, with the defaults of lines 280-295
NewDog(i) ==
  [InitDog(i) EXCEPT !.seed = Seed32(0), !.moveSpeed = 2800,
                     !.behaviorTimer = 0, !.wanderTarget = Zero3]

\* main() is between the construction of the vectors and the loop of line 887
Constructing == [InLoop EXCEPT !.stage = "construct"]

\* lines 772-781: one iteration of the loop over the cats
CatPersonality ==
  /\ process.stage = "construct"
  /\ streams.seeded < NumCats
  /\ cats' = [cats EXCEPT ![streams.seeded] = InitCat(streams.seeded)]
  /\ streams' = [streams EXCEPT !.seeded = @ + 1,
                                !.cat[streams.seeded] = Drawn(CatSeed(streams.seeded), 5)]
  /\ UNCHANGED <<player, coyoteTimer, jumpBufferTimer, stamina, clown, mummy,
                 mummyThrowCooldown, dogs, bombs, currentLevel, levelOneAnnounced,
                 hasWon, collectedCount, isPaused, wasEscapeDown, wasPDown, running,
                 process, rng, frameNo, obs>>

\* lines 806-814: one iteration of the loop over the dogs; the last one leaves
\* main() on its way to the frame loop
DogPersonality ==
  /\ process.stage = "construct"
  /\ streams.seeded >= NumCats
  /\ streams.seeded < NumCats + NumDogs
  /\ dogs' = [dogs EXCEPT ![streams.seeded - NumCats] = InitDog(streams.seeded - NumCats)]
  /\ streams' = [streams EXCEPT
                   !.seeded = @ + 1,
                   !.dog[streams.seeded - NumCats] =
                      Drawn(DogSeed(streams.seeded - NumCats), 4)]
  /\ process' = IF streams.seeded + 1 = NumCats + NumDogs THEN InLoop ELSE process
  /\ UNCHANGED <<player, coyoteTimer, jumpBufferTimer, stamina, clown, mummy,
                 mummyThrowCooldown, cats, bombs, currentLevel, levelOneAnnounced,
                 hasWon, collectedCount, isPaused, wasEscapeDown, wasPDown, running,
                 rng, frameNo, obs>>

\* one call RandomFloat(cat.seed) of the frame loop
CatDraw(i) ==
  /\ process.stage = "loop"
  /\ streams.loopDraws < MaxLoopDraws
  /\ cats' = [cats EXCEPT ![i].seed = RandomFloat(@).seed]
  /\ streams' = [streams EXCEPT !.loopDraws = @ + 1,
                                !.cat[i] = Append(@, RandomFloat(cats[i].seed).num)]
  /\ UNCHANGED <<player, coyoteTimer, jumpBufferTimer, stamina, clown, mummy,
                 mummyThrowCooldown, dogs, bombs, currentLevel, levelOneAnnounced,
                 hasWon, collectedCount, isPaused, wasEscapeDown, wasPDown, running,
                 process, rng, frameNo, obs>>

\* one call RandomFloat(dog.seed) of the frame loop
DogDraw(i) ==
  /\ process.stage = "loop"
  /\ streams.loopDraws < MaxLoopDraws
  /\ dogs' = [dogs EXCEPT ![i].seed = RandomFloat(@).seed]
  /\ streams' = [streams EXCEPT !.loopDraws = @ + 1,
                                !.dog[i] = Append(@, RandomFloat(dogs[i].seed).num)]
  /\ UNCHANGED <<player, coyoteTimer, jumpBufferTimer, stamina, clown, mummy,
                 mummyThrowCooldown, cats, bombs, currentLevel, levelOneAnnounced,
                 hasWon, collectedCount, isPaused, wasEscapeDown, wasPDown, running,
                 process, rng, frameNo, obs>>

InitStreams ==
  /\ player = BootState.player
  /\ coyoteTimer = BootState.coyoteTimer
  /\ jumpBufferTimer = BootState.jumpBufferTimer
  /\ stamina = BootState.stamina
  /\ clown = BootState.clown
  /\ mummy = BootState.mummy
  /\ mummyThrowCooldown = BootState.mummyThrowCooldown
  /\ cats = [i \in CatIds |-> NewCat(i)]
  /\ dogs = [i \in DogIds |-> NewDog(i)]
  /\ bombs = BootState.bombs
  /\ currentLevel = BootState.currentLevel
  /\ levelOneAnnounced = BootState.levelOneAnnounced
  /\ hasWon = BootState.hasWon
  /\ collectedCount = BootState.collectedCount
  /\ isPaused = FALSE
  /\ wasEscapeDown = FALSE
  /\ wasPDown = FALSE
  /\ running = TRUE
  /\ process = Constructing
  /\ rng = NoDraw(Seed32(42))
  /\ streams = NoStreams
  /\ frameNo = 0
  /\ obs = NoObs

NextStreams ==
  \/ CatPersonality
  \/ DogPersonality
  \/ \E i \in CatIds : CatDraw(i)
  \/ \E i \in DogIds : DogDraw(i)

SpecStreams == InitStreams /\ [][NextStreams]_vars

\* jumping with the jump key held
MaxHopFrames == 9

HopInputs == {Sim(60, NoDir, TRUE), Sim(30, NoDir, TRUE), Sim(60, NoDir, FALSE)}

InitHop == StartFrom(Hopping)

NextHop ==
  \/ \E in \in HopInputs : frameNo < MaxHopFrames /\ Unpaused(in)
  \/ \E in \in {PressEscape, ClickResume} : frameNo < MaxHopFrames /\ Paused(in)

SpecHop == InitHop /\ [][NextHop]_vars

\* the pause keys, pressed, held and released
MaxPauseFrames == 4

PauseInputs == {Keys(escape, pkey, resume) : escape \in BOOLEAN, pkey \in BOOLEAN,
                                             resume \in BOOLEAN}

InitPause == Boot

NextPause ==
  \/ \E in \in PauseInputs : frameNo < MaxPauseFrames /\ Unpaused(in)
  \/ \E in \in PauseInputs : frameNo < MaxPauseFrames /\ Paused(in)

SpecPause == InitPause /\ [][NextPause]_vars

----------------------------------------------------------------------------
(* Properties *)

\* the squared distance of two points less than 30 m apart
DistanceSquared(p, q) ==
  (p.x - q.x) * (p.x - q.x) + (p.y - q.y) * (p.y - q.y) + (p.z - q.z) * (p.z - q.z)

\* the last frame ran the simulation and began in the given level
RanIn(level) == obs.ran /\ obs.level = level

\* C1: in an unpaused level-1 frame the level becomes Level2Dogs if and only if
\* at the transition check collectedCount >= 10 and the player is strictly less
\* than 2.2 m from the first car; at exactly 2.2 m the level stays Level1Cats.
C1_TransitionIff ==
  RanIn("Level1Cats") =>
    /\ (currentLevel = "Level2Dogs") <=>
         (collectedCount >= 10 /\ DistanceSquared(obs.checkPos, V(18000, 0, 16000)) < 2200 * 2200)
    /\ (collectedCount >= 10 /\ DistanceSquared(obs.checkPos, V(18000, 0, 16000)) = 2200 * 2200)
         => currentLevel = "Level1Cats"

\* ten cats are collected and the player is exactly 2.2 m from the car
C1_AtExactRadius ==
  /\ RanIn("Level1Cats")
  /\ collectedCount >= 10
  /\ DistanceSquared(obs.checkPos, V(18000, 0, 16000)) = 2200 * 2200
  /\ currentLevel = "Level1Cats"

\* C2: at the end of the frame in which the level-1 to level-2 transition fires,
\* the level is Level2Dogs, the player is at (-16, 2, -16) with zero velocity, the
\* mummy is at (-2, 0.45, -10), every bomb is inactive and the throw cooldown is 1.25 s.
C2_TransitionEffects ==
  (RanIn("Level1Cats") /\ currentLevel = "Level2Dogs") =>
    /\ player.position = V(-16000, 2000, -16000)
    /\ player.velocity = V(0, 0, 0)
    /\ mummy.position = V(-2000, 450, -10000)
    /\ \A i \in BombIds : ~bombs[i].active
    /\ mummyThrowCooldown = 750

\* the transition fired in the last frame
C2_TransitionFired == RanIn("Level1Cats") /\ currentLevel = "Level2Dogs"

\* C3: Won becomes true if and only if the frame is unpaused, began in Level2Dogs,
\* and at the win check twenty dogs are collected and the player is less than
\* 2.2 m from the second car; it is never set in a frame that began in Level1Cats.
C3_WonIff ==
  ~obs.wonAtStart =>
    /\ hasWon <=>
         /\ RanIn("Level2Dogs")
         /\ collectedCount >= 20
         /\ DistanceSquared(obs.checkPos, V(-18000, 0, 18000)) < 2200 * 2200
    /\ (obs.ran /\ obs.level = "Level1Cats") => ~hasWon

\* the game was won in the last frame
C3_JustWon == ~obs.wonAtStart /\ hasWon /\ RanIn("Level2Dogs")

\* C4: in every frame after Won was set, the horizontal velocities of the player,
\* the mummy and the dogs are zero and the jump key does not launch the player.
C4_FrozenAfterWin ==
  (obs.wonAtStart /\ obs.ran) =>
    /\ player.velocity.x = 0 /\ player.velocity.z = 0
    /\ mummy.velocity.x = 0 /\ mummy.velocity.z = 0
    /\ \A i \in DogIds : dogs[i].velocity.x = 0 /\ dogs[i].velocity.z = 0
    /\ ~obs.jumped

\* C5: the level is Level1Cats when the game starts, changes only from Level1Cats
\* to Level2Dogs, Won is never cleared, and Won implies Level2Dogs.
C5_ForwardOnly ==
  /\ BootState.currentLevel = "Level1Cats" /\ ~BootState.hasWon
  /\ [][currentLevel' # currentLevel =>
          (currentLevel = "Level1Cats" /\ currentLevel' = "Level2Dogs")]_vars
  /\ [][hasWon => hasWon']_vars
  /\ [](hasWon => currentLevel = "Level2Dogs")

\* a frame ran after the game was won
C5_StillWon == obs.wonAtStart /\ hasWon /\ currentLevel = "Level2Dogs"

\* C6: at the end of every frame collectedCount is the number of collected
\* companions of the active level's species.
C6_CountMatches ==
  collectedCount = IF currentLevel = "Level1Cats" THEN CountCollected(cats)
                   ELSE CountCollected(dogs)

\* C7: for dt in [0, 0.1], after an unpaused frame the bottom of the player, of
\* the active antagonist and of every active companion is not below the ground top.
C7_GroundContainment ==
  (obs.ran /\ obs.dt <= 60) =>
    /\ obs.playerSolved.position.y - playerHalfSize >= groundTop
    /\ obs.enemySolved.position.y - enemyHalfSize >= groundTop
    /\ obs.level = "Level1Cats" =>
         \A i \in CatIds : cats[i].position.y - catRadius >= groundTop
    /\ obs.level = "Level2Dogs" =>
         \A i \in DogIds : dogs[i].position.y - dogRadius >= groundTop

\* C8: a step never snaps the player or the antagonist onto a platform whose
\* top - 0.6 was strictly above the entity's height before the step.
C8_OneWay ==
  obs.ran =>
    \A i \in 1 .. (NumPlatforms - 1) :
      /\ obs.preY < PlatformTop(i) - 600 => i \notin obs.snapped
      /\ obs.enemyPreY < PlatformTop(i) - 600 => i \notin obs.enemySnapped

\* C9: in an unpaused frame the jump fires (v.y becomes 7) if and only if both
\* timers are strictly positive after their update; after it fires both are zero;
\* with the coyote timer at exactly 0 it does not fire.
C9_JumpIff ==
  obs.ran =>
    /\ obs.jumped <=> (obs.coyoteAtCheck > 0 /\ obs.bufferAtCheck > 0)
    /\ obs.jumped =>
         /\ obs.playerStepped.velocity.y = 7000
         /\ ~obs.playerStepped.onGround
         /\ coyoteTimer = 0
         /\ jumpBufferTimer = 0
    /\ ~obs.jumped =>
         /\ obs.playerStepped = obs.playerSolved
         /\ coyoteTimer = obs.coyoteAtCheck
         /\ jumpBufferTimer = obs.bufferAtCheck
    /\ obs.coyoteAtCheck = 0 => ~obs.jumped

\* the jump fired in the last frame
C9_Jumped == obs.ran /\ obs.jumped /\ obs.playerStepped.velocity.y = 7000

\* frames k+1 and k+2 of the coyote jump: the player was on the ground before
\* frame k+1, left it in frame k+1 without jumping, and the jump key is down in
\* frame k+2; both frames are unpaused with dt = 1/60
CoyoteCase ==
  /\ obs.ran /\ obs.dt = 10 /\ obs.space /\ ~obs.startOnGround
  /\ obs.prev.ran /\ obs.prev.dt = 10 /\ obs.prev.startOnGround /\ ~obs.prev.jumped

\* the frame teleported the player: clown contact, bomb blast or level change
PlayerReset == obs.contact \/ obs.blasts # {} \/ currentLevel # obs.level

\* C10 as stated: in the coyote case the frame ends with v.y = 7 and onGround false.
C10_CoyoteJump == CoyoteCase => (player.velocity.y = 7000 /\ ~player.onGround)

\* C10 as the code has it: in the coyote case the jump fires and onGround is
\* false; v.y = 7 at the end of the frame unless the frame teleported the player.
C10_CoyoteJumpUnlessReset ==
  CoyoteCase =>
    /\ obs.jumped
    /\ ~player.onGround
    /\ ~PlayerReset => player.velocity.y = 7000
    /\ PlayerReset => player.velocity.y = 0

\* the coyote jump without a teleport
C10_CoyoteJumped == CoyoteCase /\ ~PlayerReset /\ player.velocity.y = 7000

\* the coyote jump in a frame where a bomb blast teleported the player
C10_CoyoteJumpBlasted == CoyoteCase /\ obs.jumped /\ obs.blasts # {}

\* C11: stamina stays in [0, 1]; a frame does not increase it when the player
\* sprints with input magnitude > 0.1 and does not decrease it otherwise; sprint
\* is granted only while stamina > 0.05.
C11_StaminaBounded ==
  /\ 0 <= stamina /\ stamina <= staminaFull
  /\ obs.ran =>
       /\ (obs.wantsSprint /\ obs.moving) => stamina <= obs.staminaAtStart
       /\ ~(obs.wantsSprint /\ obs.moving) => stamina >= obs.staminaAtStart
       /\ obs.wantsSprint => obs.staminaAtStart > 600
  /\ obs.paused => stamina = obs.staminaAtStart

\* a sprinting frame with dt = 0.15 s drained the last 0.054 of stamina to 0
C11_DrainedToZero ==
  obs.ran /\ obs.wantsSprint /\ obs.moving /\ obs.staminaAtStart = 650 /\ stamina = 0

\* C12: at every frame boundary every active bomb has its timer in (0, 3.5],
\* every bomb that exploded during the frame is inactive, and at most 12 bombs
\* are active.
C12_BombPool ==
  /\ \A i \in BombIds : bombs[i].active => (0 < bombs[i].timer /\ bombs[i].timer <= 2100)
  /\ obs.ran => \A i \in obs.exploded : ~bombs[i].active
  /\ Cardinality({i \in DOMAIN bombs : bombs[i].active}) <= 12

\* a bomb exploded in the frame before and was returned to the pool; the last
\* frame threw it again and it is in flight with its fuse running
C12_ThrownAfterExplosion ==
  /\ obs.ran /\ obs.threw /\ obs.slot \in obs.prev.exploded
  /\ bombs[obs.slot].active /\ bombs[obs.slot].timer = 2100 - obs.dt

\* C13: every cat's groomTarget is -1 or the index of another cat.
C13_GroomTargetValid ==
  \A i \in CatIds :
    \/ cats[i].groomTarget = -1
    \/ cats[i].groomTarget \in CatIds /\ cats[i].groomTarget # i

\* cat 1 has just begun to groom and chose cat 0
C13_TargetChosen ==
  /\ obs.ran
  /\ cats[1].idleAnim = "Groom" /\ cats[1].idleAnimTimer > 7200
  /\ cats[1].groomTarget = 0

\* the horizontal distance from cat a, where it stood at its update in a frame
\* of length dt that left it as after, to the cat other
GroomDistance(after, other, dt) ==
  Length2(other.position.x - (after.position.x - Advance(after.velocity.x, dt)),
          other.position.z - (after.position.z - Advance(after.velocity.z, dt)))

\* cat a held groom target t before the frame and still holds it after the frame
HoldsTarget(before, after, a, t) ==
  /\ before[a].idleAnim = "Groom" /\ before[a].groomTarget = t
  /\ after[a].idleAnim = "Groom" /\ after[a].groomTarget = t

\* cat t as it was when cat a was updated: cats are updated in index order
TargetAtUpdate(before, after, a, t) == IF t < a THEN after[t] ELSE before[t]

\* C14: a cat in Groom that still holds its groomTarget after its update had the
\* target in range (planar distance < 1.8) and static (planar speed < 0.2 and no
\* vertical velocity) at that update; otherwise the target was cleared.
C14_TargetCleared ==
  [][obs'.ran =>
       \A a \in CatIds : \A t \in CatIds :
         HoldsTarget(cats, cats', a, t) =>
           /\ GroomDistance(cats'[a], TargetAtUpdate(cats, cats', a, t), obs'.dt) < 1800
           /\ Length2(TargetAtUpdate(cats, cats', a, t).velocity.x,
                      TargetAtUpdate(cats, cats', a, t).velocity.z) < 200
           /\ TargetAtUpdate(cats, cats', a, t).velocity.y = 0]_vars

\* C15: the mummy's throw cooldown is never negative at a frame boundary,
\* wherever the player is, for dt in [0, 0.1].
C15_ThrowCooldownNonNegative == mummyThrowCooldown >= 0

\* C16: the clown's jumpCooldown is never negative at a frame boundary, for dt
\* in [0, 0.1].
C16_JumpCooldownNonNegative == clown.jumpCooldown >= 0

\* the state of the entities: player, antagonists, companions, bombs, their
\* timers and the level flags
entities ==
  <<player, clown, mummy, cats, dogs, bombs, coyoteTimer, jumpBufferTimer, stamina,
    mummyThrowCooldown, currentLevel, levelOneAnnounced, hasWon, collectedCount>>

\* C17: a paused frame without a menu action leaves every entity's state as it
\* was, so that pausing, any number of paused frames and unpausing return the
\* state from before the pause.
C17_PauseRoundTrip == [][obs'.paused => entities' = entities]_vars

\* C18: in every frame isPaused is toggled, once, if and only if Esc or P went
\* from up to down in that frame: a key that stays held does not toggle again
\* and does not keep the other key's rising edge from toggling.
C18_EdgeTriggered ==
  [][(obs'.paused # isPaused) <=>
       \/ wasEscapeDown' /\ ~wasEscapeDown
       \/ wasPDown' /\ ~wasPDown]_vars

\* Esc was held from the frame before, P went down, and the pause was toggled
C18_OtherKeyToggles == obs.heldEscape /\ obs.risingP /\ obs.toggled

\* C19: an initialization failure (GLFW, window, OpenGL loader, shader) ends main
\* with a nonzero return value after exactly one line on the error stream and
\* without a frame of the loop; the end of the loop returns 0.
C19_InitFailure ==
  /\ process.failure # "none" =>
        /\ process.stage = "exited"
        /\ process.returnValue # 0
        /\ process.errLines = 1
        /\ frameNo = 0
  /\ process.stage = "exited" /\ process.failure = "none" => process.returnValue = 0

\* 32-bit sum and product on 16-bit halves, by carry and by doubling
Add32(a, b) ==
  [lo |-> (a.lo + b.lo) % 65536,
   hi |-> (a.hi + b.hi + (a.lo + b.lo) \div 65536) % 65536]

RECURSIVE Times32(_, _)
Times32(a, k) ==
  IF k = 0 THEN Seed32(0)
  ELSE LET half == Times32(a, k \div 2)
       IN Add32(Add32(half, half), IF k % 2 = 1 THEN a ELSE Seed32(0))

\* C20: a call of RandomFloat leaves the seed at (1664525 * seed + 1013904223) mod
\* 2^32 and returns a value in [0, 1): the value num / 0xFFFFFF is never 1.
C20_RandomFloatRange ==
  rng.calls > 0 =>
    /\ rng.seed = Add32(Times32(rng.before, 1664525), Seed32(1013904223))
    /\ 0 <= rng.num
    /\ rng.num < randDenominator

\* C21: in an unpaused frame the antagonist acts on the player as the player step
\* left it, the companions are picked up by the player as the antagonist left
\* it, the level transition and the win are decided on the companions as their
\* update left them, and the camera looks at the player as the check left it.
C21_FrameOrder ==
  [][obs'.ran =>
       /\ obs'.level = "Level1Cats" =>
             /\ LET cs == ClownStep(clown, obs'.playerStepped, hasWon, obs'.dt)
                IN /\ cs.solved = obs'.enemySolved
                   /\ cs.contact = obs'.contact
                   /\ cs.player.position = obs'.checkPos
             /\ \A i \in CatIds :
                  cats'[i].collected <=>
                    \/ cats[i].collected
                    \/ DistanceLess(obs'.checkPos, cats[i].position, catPickupRadius)
             /\ currentLevel' = "Level2Dogs" <=>
                  /\ ~levelOneAnnounced
                  /\ CountCollected(cats') >= catsNeeded
                  /\ DistanceLess(obs'.checkPos, carPositionLevel1, carRadius)
       /\ obs'.level = "Level2Dogs" =>
             /\ mummy' = MummyMove(mummy, obs'.playerStepped, obs'.dt).mummy
             /\ \A i \in DogIds :
                  dogs'[i].collected <=>
                    \/ dogs[i].collected
                    \/ DistanceLess(obs'.checkPos, dogs[i].position, dogPickupRadius)
             /\ hasWon' <=>
                  \/ hasWon
                  \/ /\ CountCollected(dogs') >= dogsNeeded
                     /\ DistanceLess(player'.position, carPositionLevel2, carRadius)
       /\ obs'.cameraTarget = CameraTarget(player')]_vars

\* the clown reached the player where the player step had left the player and
\* sent both back to their spawn points, where the camera then looked
C21_ContactAfterMove ==
  /\ RanIn("Level1Cats")
  /\ obs.contact
  /\ obs.playerStepped.position # levelOneSpawn
  /\ obs.checkPos = levelOneSpawn
  /\ obs.cameraTarget = CameraTarget(player)

\* what the throw of lines 1411-1429 did in a level-2 frame, given the cooldown
\* after its decay and the mummy-player distance dist: pool is the bomb pool as
\* the throw left it
ThrowCase(dist, pool) ==
  LET fires == mummyThrowCooldown - obs'.dt <= 0 /\ dist < throwRange
  IN /\ fires =>
          \E slot \in BombIds :
            /\ ~bombs[slot].active
            /\ \A j \in BombIds : j < slot => bombs[j].active
            /\ pool[slot].active
            /\ pool[slot].timer = bombFuse
            /\ pool[slot].position = V(mummy'.position.x,
                                       mummy'.position.y + enemyHalfSize + 600,
                                       mummy'.position.z)
            /\ \A j \in BombIds : j # slot => pool[j] = bombs[j]
            /\ mummyThrowCooldown' = throwCooldownReset
     /\ ~fires => pool = bombs

C23_Explosion ==
  [][(obs'.ran /\ obs'.level = "Level2Dogs") =>
       /\ \A i \in BombIds :
            IF obs'.poolAfterThrow[i].active
            THEN /\ i \in obs'.exploded <=>
                      \/ bombs'[i].position.y <= groundTop + 250
                      \/ bombs'[i].timer <= 0
                 /\ bombs'[i].active <=> i \notin obs'.exploded
            ELSE /\ bombs'[i] = obs'.poolAfterThrow[i]
                 /\ i \notin obs'.exploded
       /\ IF \E i \in obs'.exploded :
               DistanceLess(obs'.playerStepped.position, bombs'[i].position, blastRadius)
          THEN player' = [obs'.playerStepped EXCEPT !.position = levelTwoSpawn,
                                                   !.velocity = Zero3]
          ELSE player' = obs'.playerStepped]_vars

\* a bomb exploded next to the player, who had moved in this frame
C23_BlastResetsPlayer ==
  /\ RanIn("Level2Dogs")
  /\ obs.exploded # {}
  /\ obs.blasts = obs.exploded
  /\ obs.playerStepped.position # levelTwoSpawn
  /\ player.position = levelTwoSpawn
  /\ \A i \in obs.exploded : ~bombs[i].active

\* C24: in a level-1 frame the clown's predictive jump fires exactly when the
\* clown is onGround, its jumpCooldown after the decay is <= 0, the player is more
\* than 0.2 above it and less than 6.5 from it in the plane; the jump sets
\* jumpCooldown to 0.45 and v.y to sqrt(2 * 18 * clamp(dy + 0.4, 0.8, 2.4)).
C24_PredictiveJump ==
  [][(obs'.ran /\ obs'.level = "Level1Cats") =>
       LET pl == obs'.playerStepped.position
           dy == pl.y - clown.position.y
           cooldown == IF clown.jumpCooldown > 0 THEN clown.jumpCooldown - obs'.dt
                       ELSE clown.jumpCooldown
           height == IF dy + 400 < 800 THEN 800
                     ELSE IF dy + 400 > 2400 THEN 2400 ELSE dy + 400
           fires == /\ clown.onGround
                    /\ cooldown <= 0
                    /\ dy > 200
                    /\ Length2(pl.x - clown.position.x, pl.z - clown.position.z) < 6500
       IN /\ obs'.enemyJumped <=> fires
          /\ fires => /\ obs'.enemyAimed.jumpCooldown = 270
                      /\ obs'.enemyAimed.velocity.y = ISqrt(2 * 18000 * height)]_vars

\* the clown jumped at a player 2 m or more above it: the height term is clamped
\* to 2.4 and v.y is sqrt(86.4) = 9.295
C24_ClampedJump ==
  /\ RanIn("Level1Cats")
  /\ obs.enemyJumped
  /\ obs.playerStepped.position.y - obs.enemyPreY >= 2000
  /\ obs.enemyAimed.velocity.y = 9295
  /\ obs.enemyAimed.jumpCooldown = 270

\* C25: in a level-1 frame where, after the clown's solver step, the player is
\* less than playerHalf + clownHalf + 0.1 from the clown, the player is put at the
\* level-1 spawn with zero velocity and the clown at its spawn point, at rest and
\* on the ground; the level and the Won flag stay as they were and no cat loses
\* its collected flag.
C25_ContactReset ==
  [][(obs'.ran /\ obs'.level = "Level1Cats") =>
       LET hit == DistanceLess(obs'.playerStepped.position, obs'.enemySolved.position,
                               playerHalfSize + enemyHalfSize + 100)
       IN /\ obs'.contact <=> hit
          /\ hit =>
               /\ player'.position = levelOneSpawn
               /\ player'.velocity = Zero3
               /\ clown'.position = V(4000, groundTop + enemyHalfSize, -4000)
               /\ clown'.velocity = Zero3
               /\ clown'.onGround
               /\ currentLevel' = currentLevel
               /\ hasWon' = hasWon
               /\ \A i \in CatIds : cats[i].collected => cats'[i].collected
               /\ \A i \in CatIds :
                    cats'[i].collected /\ ~cats[i].collected =>
                      DistanceLess(levelOneSpawn, cats[i].position, catPickupRadius)]_vars

\* the clown, running, touched the player, who has two cats, and both are back
\* at their spawn points
C25_Contact ==
  /\ RanIn("Level1Cats")
  /\ obs.contact
  /\ CountCollected(cats) = 2
  /\ obs.enemySolved.velocity # Zero3
  /\ player.position = levelOneSpawn
  /\ clown.position = clownSpawn
  /\ currentLevel = "Level1Cats"

\* cat a ends its update of the frame in Groom with groom target t
Grooms(after, a, t) == after[a].idleAnim = "Groom" /\ after[a].groomTarget = t

\* what the frame leaves of a target that groomer a refreshed at its update: the
\* refreshed timer if the target was updated before a, and otherwise what the
\* target's own update made of it: one step of decay, or the 0.2 s of a cat that
\* set off
Refreshed(after, a, t, dt) ==
  IF t < a
  THEN after[t].idleAnim = "Groomed" /\ after[t].idleAnimTimer = 720
  ELSE \/ after[t].idleAnim = "Groomed" /\ after[t].idleAnimTimer = 720 - dt
       \/ after[t].idleAnim = "None" /\ after[t].idleAnimTimer = 120

\* C26: in a frame in which cat A is in Groom with groomTarget = B at its update
\* (B is then within 1.8 m) and B is stationary, resting on the ground with no
\* horizontal velocity, A's update leaves B Groomed with idleAnimTimer = 1.2, and
\* B's idleAnimTimer is not below 0 at the end of the frame, whether A's index is
\* lower or higher than B's.
C26_GroomCoupling ==
  [][obs'.ran =>
       \A a \in CatIds : \A t \in CatIds :
         (/\ Grooms(cats', a, t)
          /\ TargetAtUpdate(cats, cats', a, t).velocity.x = 0
          /\ TargetAtUpdate(cats, cats', a, t).velocity.z = 0
          /\ cats[t].position.y <= catRadius)
         => /\ Refreshed(cats', a, t, obs'.dt)
            /\ cats'[t].idleAnimTimer >= 0]_vars

\* the refresh as line 1329 grants it: to a target with planar speed < 0.2 and a
\* vertical velocity of exactly 0 when A is updated
GroomRefreshOnZeroVelocity ==
  [][obs'.ran =>
       \A a \in CatIds : \A t \in CatIds :
         (/\ Grooms(cats', a, t)
          /\ Length2(TargetAtUpdate(cats, cats', a, t).velocity.x,
                     TargetAtUpdate(cats, cats', a, t).velocity.z) < 200
          /\ TargetAtUpdate(cats, cats', a, t).velocity.y = 0)
         => /\ Refreshed(cats', a, t, obs'.dt)
            /\ cats'[t].idleAnimTimer >= 0]_vars

\* a groomed cat's idle timer is never below 0 at the end of a frame
GroomedTimerNonNegative ==
  \A t \in CatIds : cats[t].idleAnim = "Groomed" => cats[t].idleAnimTimer >= 0

\* C27: no step resets a collected flag: a collected cat or dog stays collected
\* through every frame, paused or not, and the numbers of collected cats and of
\* collected dogs never decrease.
C27_CollectedForGood ==
  [][/\ \A i \in CatIds : cats[i].collected => cats'[i].collected
     /\ \A i \in DogIds : dogs[i].collected => dogs'[i].collected
     /\ CountCollected(cats') >= CountCollected(cats)
     /\ CountCollected(dogs') >= CountCollected(dogs)]_vars

\* the level transition has just put the player in level 2 and all ten cats are
\* still collected
C27_CatsKeptAcrossTransition ==
  /\ RanIn("Level1Cats")
  /\ currentLevel = "Level2Dogs"
  /\ CountCollected(cats) = catsNeeded

\* C28: once a jump has fired, no further jump fires in a frame unless the
\* solver of that frame or of a frame in between has put the player on the
\* ground again, however long the jump key is held.
C28_NoDoubleJump ==
  [][(obs'.ran /\ obs'.jumped /\ obs.airborneSinceJump) =>
       obs'.playerSolved.onGround]_vars

\* the player came down from a jump at more than 3 m/s with the jump key held
\* and jumped again in the frame of the landing
C28_JumpedAgainOnLanding ==
  /\ obs.ran /\ obs.space
  /\ obs.prev.airborneSinceJump
  /\ obs.startVelocity.y < -3000
  /\ obs.playerSolved.onGround
  /\ obs.jumped

\* C29: at every frame boundary at most 4 bombs of the pool of 12 are active, and
\* every throw finds an inactive slot and activates a bomb there.
C29_PoolNeverExhausted ==
  /\ Cardinality({i \in BombIds : bombs[i].active}) <= 4
  /\ obs.threw =>
        /\ obs.slot \in BombIds
        /\ obs.poolAfterThrow[obs.slot].active
        /\ obs.poolAfterThrow[obs.slot].timer = bombFuse

\* the mummy's second throw, 1.1 s of frames after its first
C29_SecondThrow ==
  /\ RanIn("Level2Dogs")
  /\ frameNo >= 11
  /\ obs.threw
  /\ obs.slot \in BombIds
  /\ bombs[obs.slot].active

\* b is a by one draw later: the k-th value of b is the (k+1)-th value of a
ShiftedByOne(a, b) ==
  \A k \in 1 .. Len(b) : k + 1 <= Len(a) => b[k] = a[k + 1]

\* C30: the k-th value a cat draws from its own seed is the (k+1)-th value the cat
\* before it draws from its own seed, for every k >= 1 and every two adjacent cats,
\* and the same holds for every two adjacent dogs.
C30_ShiftedStreams ==
  /\ \A i \in 0 .. (NumCats - 2) : ShiftedByOne(streams.cat[i], streams.cat[i + 1])
  /\ \A i \in 0 .. (NumDogs - 2) : ShiftedByOne(streams.dog[i], streams.dog[i + 1])

\* cat 1 has drawn a sixth value in the frame loop and cat 0 a seventh: the same
\* value, which is not the one cat 0 drew before it
C30_DrawnInLoop ==
  /\ Len(streams.cat[1]) >= 6
  /\ Len(streams.cat[0]) >= 7
  /\ streams.cat[1][6] = streams.cat[0][7]
  /\ streams.cat[0][7] # streams.cat[0][6]
  /\ cats[0].seed = cats[1].seed

====
